---- MODULE Spec2Model ----
(***************************************************************************)
(* Knowledge-base / resource consistency layer of knowledge-micro-ex.      *)
(*                                                                         *)
(* State: the two document collections (knowledge bases, resources), the   *)
(* objects held by the remote file store, the outcome of the last          *)
(* operation, and the add_resources calls suspended at their await.  One   *)
(* action per public operation of the adapters, of KnowledgeBaseService    *)
(* and of AppService; every action is the whole handler, with every nested *)
(* call it makes.  The calls that race on one knowledge base are the       *)
(* exception: each is two actions, split at the await between its read     *)
(* and its save.                                                           *)
(*                                                                         *)
(* Python's None is the string "None" for scalar fields and the empty      *)
(* sequence for a storage key.  An exception is the name of its class.     *)
(* The document database and the file store are external collaborators:    *)
(* each write to the database and each call to the file store takes its    *)
(* outcome from the action's inputs.                                       *)
(***************************************************************************)
EXTENDS Integers, Sequences, FiniteSets, TLC

VARIABLES kbs, res, made, objects, out, inflight

vars == <<kbs, res, made, objects, out, inflight>>

-----------------------------------------------------------------------------
(* Bounds of the model. *)

\* Resource documents ever created (resource ids are 1..MaxRes, never reused).
MaxRes == 2
\* Longest embedded ResourceMetadata list of a knowledge base.
MaxMeta == 2
\* Longest batch of files of one upload request.
MaxFiles == 2
\* Longest name, in characters, that validate_name is given letter by letter.
MaxLen == 4

-----------------------------------------------------------------------------
(* Domains of the inputs. *)

None == "None"
NoKey == <<>>

Users == {"u1", "u2"}
Actors == Users \cup {None}
KbIds == {"k1", "k2"}
ResIds == 1 .. MaxRes
FileNames == {"f1", "f2"}
\* Names as a caller may pass them to a rename: padded, and blank.
RawNames == {" f2 ", "  "}
PUBLIC == "public"
PRIVATE == "private"
Visibility == {PUBLIC, PRIVATE}

\* The storage directory a creation request gives knowledge base k.
DirOf(k) == IF k = "k1" THEN "d1" ELSE "d2"

\* Outcomes of a call to the file store: a success response, a response with
\* success = False, an exception.
StoreOutcomes == {"ok", "fail", "raise"}
\* Outcomes of a write to the document database.
DbOutcomes == {"ok", "fail"}

NoDoc == [absent |-> TRUE]

\* str.strip() on the names of the model.
Strip(s) ==
    CASE s = " f2 " -> "f2"
      [] s = "  " -> ""
      [] OTHER -> s

-----------------------------------------------------------------------------
(* Exceptions: the class hierarchy of app/exceptions.py. *)

KBExceptions ==
    {"KBException", "KnowledgeBaseNotFound", "KnowledgeBasesForUserNotFound",
     "InvalidPathError", "CannotCreateKnowledgeBase", "CannotUpdateKnowledgeBase",
     "CannotUploadFile", "ResourcesForKnowledgeBaseNotFound", "ResourceAdditionError",
     "CannotDeleteKnowledgeBase", "KnowledgeBaseDeleteError", "ResourceDeleteError"}

\* The name CannotDeleteResource is bound twice in the module; the second
\* class, a ResourceException, is the one the name denotes afterwards.
ResourceExceptions ==
    {"ResourceException", "ResourceNotFound", "CannotCreateResource",
     "CannotUpdateResource", "CannotDeleteResource"}

RemoteFileManagerExceptions ==
    {"RemoteFileManagerException", "RemoteFileManagerAddError",
     "RemoteFileManagerMoveError", "RemoteFileManagerDeleteError"}

\* isinstance(e, cls) for the classes the except clauses name.
IsA(e, cls) ==
    CASE cls = "Exception" -> e /= None
      [] cls = "KBException" -> e \in KBExceptions
      [] cls = "ResourceException" -> e \in ResourceExceptions
      [] cls = "RemoteFileManagerException" -> e \in RemoteFileManagerExceptions
      [] OTHER -> e = cls

-----------------------------------------------------------------------------
(* Results of a call: the exception raised (None when it returned), the     *)
(* value returned and the state it leaves.  A state st is a record of the   *)
(* collections, the objects of the store and the calls made so far.         *)

Ret(st, v) == [exc |-> None, val |-> v, st |-> st]
Raise(st, e) == [exc |-> e, val |-> <<>>, st |-> st]

\* The calls an operation makes on its collaborators, in order.
Ev(name, rid, key, kb) == [ev |-> name, rid |-> rid, key |-> key, kb |-> kb]
Log(st, e) == [st EXCEPT !.tr = Append(@, e)]

Here == [kbs |-> kbs, res |-> res, made |-> made, objs |-> objects, tr |-> <<>>]

-----------------------------------------------------------------------------
(* Documents: app/models/knowledge.py *)

\* ResourceDocument.to_metadata
to_metadata(r) ==
    [resource_id |-> r.resource_id,
     name |-> r.name,
     remote_file_key |-> r.remote_file_key,
     in_vector_store |-> IF r.in_vector_store THEN r.in_vector_store ELSE FALSE]

\* ResourceDocument(**create_dict): name and user_id are required fields,
\* the others take the defaults of the class.
ResourceDocument(rid, d) ==
    [resource_id |-> rid,
     name |-> d.name,
     user_id |-> d.user_id,
     visibility |-> IF "visibility" \in DOMAIN d THEN d.visibility ELSE PRIVATE,
     remote_file_key |-> IF "remote_file_key" \in DOMAIN d THEN d.remote_file_key ELSE NoKey,
     knowledgebase_id |-> IF "knowledgebase_id" \in DOMAIN d THEN d.knowledgebase_id ELSE None,
     knowledgebase_name |-> IF "knowledgebase_name" \in DOMAIN d THEN d.knowledgebase_name ELSE None,
     in_vector_store |-> FALSE]

\* KnowledgeBaseDocument(**create_dict): name and user_id are required.
KnowledgeBaseDocument(d) ==
    [id |-> d.id,
     name |-> d.name,
     user_id |-> d.user_id,
     visibility |-> IF "visibility" \in DOMAIN d THEN d.visibility ELSE PRIVATE,
     remote_dir |-> IF "remote_dir" \in DOMAIN d THEN d.remote_dir ELSE None,
     resources |-> <<>>]

\* Pydantic's validation of the required fields of both document classes.
ValidDocDict(d) == "name" \in DOMAIN d /\ "user_id" \in DOMAIN d

\* The id a new resource document is given: PydanticObjectId() is unique, so
\* an id is never reused, also not after the document was deleted.
FreshRid(st) == st.made + 1

\* Field f of a document after doc.f = updates[f] for the keys of updates.
Upd(doc, u, f) == IF f \in DOMAIN u THEN u[f] ELSE doc[f]

-----------------------------------------------------------------------------
(* KnowledgeBaseAdapter: app/adapters/knowledge_adapter.py *)

kb_get_kb_by_id(st, kb_id) ==
    IF kb_id = None THEN Raise(st, "InvalidPathError")
    ELSE IF kb_id \notin KbIds \/ st.kbs[kb_id] = NoDoc
         THEN Raise(st, "KnowledgeBaseNotFound")
         ELSE Ret(st, st.kbs[kb_id])

\* KnowledgeBaseAdapter.get_all_resources: an empty list is an error.
kb_get_all_resources(st, kb_id) ==
    LET g == kb_get_kb_by_id(st, kb_id)
    IN  IF g.exc /= None THEN g
        ELSE IF g.val.resources = <<>>
             THEN Raise(st, "ResourcesForKnowledgeBaseNotFound")
             ELSE Ret(st, g.val.resources)

\* KnowledgeBaseAdapter.create; db is the outcome of kb.create().
kb_create(st, d, db) ==
    IF ~ValidDocDict(d) \/ st.kbs[d.id] /= NoDoc \/ db = "fail"
    THEN Raise(st, "CannotCreateKnowledgeBase")
    ELSE Ret(Log([st EXCEPT !.kbs[d.id] = KnowledgeBaseDocument(d)],
                 Ev("kb.create", 0, NoKey, d.id)),
             KnowledgeBaseDocument(d))

\* update_kb setting and saving the other fields before it looks at the name
\* (not what the adapter does).
kb_update_kb_NameLast(st, kb_id, u, db) ==
    LET g == kb_get_kb_by_id(st, kb_id)
        kb == g.val
        others == [id |-> kb.id,
                   name |-> kb.name,
                   user_id |-> Upd(kb, u, "user_id"),
                   visibility |-> Upd(kb, u, "visibility"),
                   remote_dir |-> Upd(kb, u, "remote_dir"),
                   resources |-> Upd(kb, u, "resources")]
        new == [others EXCEPT !.name = IF "name" \in DOMAIN u THEN Strip(u.name) ELSE kb.name]
    IN  IF g.exc /= None THEN g
        ELSE IF db = "fail"
             THEN Raise(st, "CannotUpdateKnowledgeBase")
             ELSE IF "name" \in DOMAIN u /\ Strip(u.name) = ""
                  THEN Raise(Log([st EXCEPT !.kbs[kb_id] = others],
                                 Ev("kb.save", 0, NoKey, kb_id)), "InvalidNameError")
                  ELSE Ret(Log([st EXCEPT !.kbs[kb_id] = new],
                               Ev("kb.save", 0, NoKey, kb_id)), <<>>)

\* KnowledgeBaseAdapter.update_kb; db is the outcome of kb.save().
kb_update_kb(st, kb_id, u, db) ==
    LET g == kb_get_kb_by_id(st, kb_id)
        kb == g.val
        new == [id |-> kb.id,
                name |-> IF "name" \in DOMAIN u THEN Strip(u.name) ELSE kb.name,
                user_id |-> Upd(kb, u, "user_id"),
                visibility |-> Upd(kb, u, "visibility"),
                remote_dir |-> Upd(kb, u, "remote_dir"),
                resources |-> Upd(kb, u, "resources")]
    IN  IF g.exc /= None THEN g
        ELSE IF "name" \in DOMAIN u /\ Strip(u.name) = ""
             THEN Raise(st, "InvalidNameError")
             ELSE IF db = "fail"
                  THEN Raise(st, "CannotUpdateKnowledgeBase")
                  ELSE Ret(Log([st EXCEPT !.kbs[kb_id] = new],
                               Ev("kb.save", 0, NoKey, kb_id)), <<>>)

\* The list as a save that pushed the new entries onto the stored list would
\* leave it (not what the adapter does).
kb_add_resources_save_Pushed(st, kb, rs, db) ==
    LET metas == [i \in 1 .. Len(rs) |-> to_metadata(rs[i])]
    IN  IF db = "fail" \/ st.kbs[kb.id] = NoDoc
        THEN Raise(st, "ResourceAdditionError")
        ELSE Ret(Log([st EXCEPT !.kbs[kb.id].resources = @ \o metas],
                     Ev("kb.save", 0, NoKey, kb.id)), <<>>)

\* The second half of KnowledgeBaseAdapter.add_resources, from the document
\* kb that get_kb_by_id returned: the entries of rs are appended to the list
\* of that document and kb.save() writes the whole document back, whatever
\* the collection holds by then.  db is the outcome of kb.save().
kb_add_resources_save(st, kb, rs, db) ==
    LET metas == [i \in 1 .. Len(rs) |-> to_metadata(rs[i])]
    IN  IF db = "fail"
        THEN Raise(st, "ResourceAdditionError")
        ELSE Ret(Log([st EXCEPT !.kbs[kb.id] = [kb EXCEPT !.resources = @ \o metas]],
                     Ev("kb.save", 0, NoKey, kb.id)), <<>>)

\* add_resources with the new entries put in front of the list (not what the
\* adapter does).
kb_add_resources_Prepended(st, kb_id, rs, db) ==
    LET g == kb_get_kb_by_id(st, kb_id)
        metas == [i \in 1 .. Len(rs) |-> to_metadata(rs[i])]
    IN  IF g.exc /= None \/ db = "fail"
        THEN Raise(st, "ResourceAdditionError")
        ELSE Ret(Log([st EXCEPT !.kbs[kb_id].resources = metas \o @],
                     Ev("kb.save", 0, NoKey, kb_id)), <<>>)

\* KnowledgeBaseAdapter.add_resources run without interruption; rs are the
\* resource documents the caller holds, db is the outcome of kb.save().
kb_add_resources(st, kb_id, rs, db) ==
    LET g == kb_get_kb_by_id(st, kb_id)
    IN  IF g.exc /= None
        THEN Raise(st, "ResourceAdditionError")
        ELSE kb_add_resources_save(g.st, g.val, rs, db)

\* KnowledgeBaseAdapter.remove_resources: every exception of the body, the
\* ResourceDeleteError of the unchanged length included, leaves as KBException.
kb_remove_resources(st, kb_id, ids, db) ==
    LET g == kb_get_kb_by_id(st, kb_id)
        kept == SelectSeq(g.val.resources, LAMBDA m : m.resource_id \notin ids)
    IN  IF g.exc /= None THEN Raise(st, "KBException")
        ELSE IF Len(kept) = Len(g.val.resources) THEN Raise(st, "KBException")
        ELSE IF db = "fail" THEN Raise(st, "KBException")
        ELSE Ret(Log([st EXCEPT !.kbs[kb_id].resources = kept],
                     Ev("kb.save", 0, NoKey, kb_id)), <<>>)

\* KnowledgeBaseAdapter.delete: the document has no Link field, so the
\* DELETE_LINKS rule finds nothing to follow and removes the document alone.
kb_delete(st, kb_id, db) ==
    LET g == kb_get_kb_by_id(st, kb_id)
    IN  IF g.exc /= None \/ db = "fail"
        THEN Raise(st, "KnowledgeBaseDeleteError")
        ELSE Ret(Log([st EXCEPT !.kbs[kb_id] = NoDoc],
                     Ev("kb.delete", 0, NoKey, kb_id)), <<>>)

-----------------------------------------------------------------------------
(* ResourceAdapter: app/adapters/resource_adapter.py *)

ra_get_resource_by_id(st, rid) ==
    IF rid \notin ResIds \/ st.res[rid] = NoDoc
    THEN Raise(st, "ResourceNotFound")
    ELSE Ret(st, st.res[rid])

\* ResourceAdapter.create_resource; db is the outcome of resource.create().
ra_create_resource(st, d, db) ==
    LET rid == FreshRid(st)
        doc == ResourceDocument(rid, d)
    IN  IF ~ValidDocDict(d) \/ db = "fail"
        THEN Raise(st, "CannotCreateResource")
        ELSE Ret(Log([st EXCEPT !.res[rid] = doc, !.made = rid],
                     Ev("resource.create", rid, NoKey, None)), doc)

\* ResourceAdapter.update_resource; db is the outcome of resource.save().
ra_update_resource(st, rid, u, db) ==
    LET g == ra_get_resource_by_id(st, rid)
        r == g.val
        new == [resource_id |-> r.resource_id,
                name |-> IF "name" \in DOMAIN u THEN Strip(u.name) ELSE r.name,
                user_id |-> Upd(r, u, "user_id"),
                visibility |-> Upd(r, u, "visibility"),
                remote_file_key |-> Upd(r, u, "remote_file_key"),
                knowledgebase_id |-> Upd(r, u, "knowledgebase_id"),
                knowledgebase_name |-> Upd(r, u, "knowledgebase_name"),
                in_vector_store |-> Upd(r, u, "in_vector_store")]
    IN  IF g.exc /= None THEN g
        ELSE IF "name" \in DOMAIN u /\ Strip(u.name) = ""
             THEN Raise(st, "InvalidNameError")
             ELSE IF db = "fail"
                  THEN Raise(st, "CannotUpdateResource")
                  ELSE Ret(Log([st EXCEPT !.res[rid] = new],
                               Ev("resource.save", rid, NoKey, None)), <<>>)

\* ResourceAdapter.delete_resource; db is the outcome of resource.delete().
ra_delete_resource(st, rid, db) ==
    LET g == ra_get_resource_by_id(st, rid)
    IN  IF g.exc /= None THEN g
        ELSE IF db = "fail" THEN Raise(st, "CannotDeleteResource")
        ELSE Ret(Log([st EXCEPT !.res[rid] = NoDoc],
                     Ev("resource.delete", rid, NoKey, None)), <<>>)

-----------------------------------------------------------------------------
(* The file store: app/services/file_service.py                             *)
(* KnowledgeBaseService is built on the RemoteFileService interface; a call *)
(* answers with a RemoteFileResponse or raises, as its outcome o says.      *)

Response(ok, key) == [success |-> ok, file_key |-> key]

\* construct_file_key with no direct key: "<dir_path>/<file_name>".
construct_file_key(dir_path, file_name) == <<dir_path, file_name>>

\* upload_file: the key is built before the upload is tried, and a missing
\* directory or file name is a ValueError of construct_file_key.
upload_file(st, dir_path, file_name, rid, o) ==
    LET key == construct_file_key(dir_path, file_name)
    IN  IF dir_path = None \/ file_name = None
        THEN Raise(st, "ValueError")
        ELSE CASE o = "ok" ->
                    Ret(Log([st EXCEPT !.objs = @ \cup {key}], Ev("upload_file:ok", rid, key, None)),
                        Response(TRUE, key))
               [] o = "fail" ->
                    Ret(Log(st, Ev("upload_file:fail", rid, key, None)), Response(FALSE, NoKey))
               [] OTHER ->
                    Raise(Log(st, Ev("upload_file:raise", rid, key, None)), "StoreError")

\* delete_file
delete_file(st, key, o) ==
    CASE o = "ok" /\ key /= NoKey ->
            Ret(Log([st EXCEPT !.objs = @ \ {key}], Ev("delete_file:ok", 0, key, None)),
                Response(TRUE, key))
      [] o = "raise" ->
            Raise(Log(st, Ev("delete_file:raise", 0, key, None)), "StoreError")
      [] OTHER ->
            Ret(Log(st, Ev("delete_file:fail", 0, key, None)), Response(FALSE, key))

\* move_file: the object is copied to the new key and the old one deleted;
\* only an object that exists can be moved.
move_file(st, old_key, new_dir, file_name, o) ==
    LET new_key == construct_file_key(new_dir, file_name)
    IN  CASE o = "ok" /\ old_key \in st.objs /\ new_dir /= None ->
                Ret(Log([st EXCEPT !.objs = (@ \ {old_key}) \cup {new_key}],
                        Ev("move_file:ok", 0, new_key, None)),
                    Response(TRUE, new_key))
          [] o = "raise" ->
                Raise(Log(st, Ev("move_file:raise", 0, old_key, None)), "StoreError")
          [] OTHER ->
                Ret(Log(st, Ev("move_file:fail", 0, old_key, None)), Response(FALSE, new_key))

\* The objects stored under a directory key.
Under(objs, dir_key) == {k \in objs : k[1] = dir_key}

\* delete_directory: a prefix that holds no object is "Directory not found".
delete_directory(st, dir_key, o) ==
    CASE o = "ok" /\ Under(st.objs, dir_key) /= {} ->
            Ret(Log([st EXCEPT !.objs = @ \ Under(@, dir_key)],
                    Ev("delete_directory:ok", 0, <<dir_key>>, None)),
                Response(TRUE, <<dir_key>>))
      [] o = "raise" ->
            Raise(Log(st, Ev("delete_directory:raise", 0, <<dir_key>>, None)), "StoreError")
      [] OTHER ->
            Ret(Log(st, Ev("delete_directory:fail", 0, <<dir_key>>, None)),
                Response(FALSE, <<dir_key>>))

\* S3Service, the implementation of the interface on an S3 bucket.  Its
\* client object comes from app/clients/file_client.py, which the sources do
\* not hold, so a call of obj.delete() has one of three outcomes: the object
\* is deleted and the call can be awaited ("ok"); the object is deleted and
\* the call returns a plain response, whose await raises TypeError inside
\* the try ("unawaitable", what a boto3 resource does); the call raises
\* ("error").
S3Outcomes == {"ok", "unawaitable", "error"}

S3Response(ok, message, key) == [success |-> ok, message |-> message, file_key |-> key]

\* S3Service.delete_file: both except clauses answer success = False.
s3_delete_file(st, file_key, o) ==
    CASE o = "ok" ->
            Ret(Log([st EXCEPT !.objs = @ \ {file_key}], Ev("s3.delete:ok", 0, file_key, None)),
                S3Response(TRUE, "File deleted successfully.", file_key))
      [] o = "unawaitable" ->
            Ret(Log([st EXCEPT !.objs = @ \ {file_key}], Ev("s3.delete:ok", 0, file_key, None)),
                S3Response(FALSE, "Failed to delete file", file_key))
      [] OTHER ->
            Ret(Log(st, Ev("s3.delete:error", 0, file_key, None)),
                S3Response(FALSE, "Failed to delete file", file_key))

\* The outcomes of the client calls of one S3Service operation: of the
\* listing, and of the delete of the object of each file name.
NoS3 == [list |-> "ok", copy |-> "ok", f1 |-> "ok", f2 |-> "ok"]

\* S3Service.delete_directory answering success for a prefix without objects
\* (not what the service does).
s3_delete_directory_EmptyIsFine(st, dir_key, o) ==
    LET found == Under(st.objs, dir_key)
        gone == {k \in found : o[k[2]] /= "error"}
        success == \A k \in found : o[k[2]] = "ok"
        after == [st EXCEPT !.objs = @ \ gone,
                            !.tr = @ \o [n \in 1 .. Cardinality(found) |->
                                            Ev("s3.delete", 0, <<dir_key>>, None)]]
    IN  IF o.list /= "ok"
        THEN Ret(st, S3Response(FALSE, "Failed to delete directory", <<dir_key>>))
        ELSE Ret(after, S3Response(success,
                                   IF success THEN "All objects deleted successfully."
                                              ELSE "Some objects could not be deleted.",
                                   <<dir_key>>))

\* S3Service.delete_directory: the objects list_objects_v2 finds under the
\* prefix are deleted one by one with delete_file, whose failures do not
\* stop the loop; a listing without 'Contents' is "Directory not found.".
s3_delete_directory(st, dir_key, o) ==
    LET found == Under(st.objs, dir_key)
        gone == {k \in found : o[k[2]] /= "error"}
        success == \A k \in found : o[k[2]] = "ok"
        after == [st EXCEPT !.objs = @ \ gone,
                            !.tr = @ \o [n \in 1 .. Cardinality(found) |->
                                            Ev("s3.delete", 0, <<dir_key>>, None)]]
    IN  IF o.list /= "ok"
        THEN Ret(st, S3Response(FALSE, "Failed to delete directory", <<dir_key>>))
        ELSE IF found = {}
             THEN Ret(st, S3Response(FALSE, "Directory not found.", <<dir_key>>))
             ELSE Ret(after, S3Response(success,
                                        IF success THEN "All objects deleted successfully."
                                                   ELSE "Some objects could not be deleted.",
                                        <<dir_key>>))

\* construct_file_key(new_dir, file_name) as S3Service.move_file calls it:
\* the function has three parameters without defaults, so the call with two
\* is a TypeError.
construct_file_key_of_move(st, dir_path, file_name) == Raise(st, "TypeError")

\* S3Service.move_file: the key is built outside the try; inside it the
\* object is copied to the new key and the old one deleted with delete_file,
\* whose response is dropped.
s3_move_file(st, old_key, new_dir, file_name, o) ==
    LET k == construct_file_key_of_move(st, new_dir, file_name)
        new_key == k.val
        copied == [st EXCEPT !.objs = @ \cup {new_key}]
        d == s3_delete_file(copied, old_key, o[old_key[2]])
    IN  IF k.exc /= None THEN k
        ELSE IF o.copy /= "ok" \/ old_key \notin st.objs
             THEN Ret(st, S3Response(FALSE, "Failed to move file", new_key))
             ELSE Ret(d.st, S3Response(TRUE, "File moved successfully.", new_key))

\* The outcomes of the collaborators' calls of one operation.
NoFault ==
    [rcreate |-> "ok", rsave |-> "ok", rdelete |-> "ok",
     kbcreate |-> "ok", kbsave |-> "ok", kbdelete |-> "ok",
     upload |-> "ok", delete_file |-> "ok", move_file |-> "ok", delete_directory |-> "ok"]

-----------------------------------------------------------------------------
(* KnowledgeBaseService: app/services/knowledge_service.py *)

\* try: body  except <kept classes>: raise  except Exception: raise wrapped
Wrap(r, kept, wrapped) ==
    IF r.exc = None \/ (\E c \in kept : IsA(r.exc, c)) THEN r ELSE Raise(r.st, wrapped)

svc_get_knowledgebase_by_id(st, kb_id) ==
    Wrap(kb_get_kb_by_id(st, kb_id), {"KnowledgeBaseNotFound"}, "KBException")

\* get_resource_by_id calls self.resource_adapter.get, which ResourceAdapter
\* does not define: the AttributeError leaves as ResourceException.
svc_get_resource_by_id(st, rid) ==
    Wrap(Raise(st, "AttributeError"), {"ResourceNotFound"}, "ResourceException")

svc_create_knowledgebase(st, d, f) ==
    Wrap(kb_create(st, d, f.kbcreate), {"CannotCreateKnowledgeBase"}, "KBException")

svc_create_resource(st, d, f) ==
    Wrap(ra_create_resource(st, d, f.rcreate), {"CannotCreateResource"}, "ResourceException")

svc_add_resources(st, kb_id, rs, f) ==
    Wrap(kb_add_resources(st, kb_id, rs, f.kbsave), {"ResourceAdditionError"}, "KBException")

svc_update_knowledgebase(st, kb_id, u, f) ==
    Wrap(kb_update_kb(st, kb_id, u, f.kbsave), {"InvalidNameError"}, "KBException")

\* The embedded entry after setattr(entry, key, value) for the keys it has.
SyncedMeta(m, u) ==
    [resource_id |-> Upd(m, u, "resource_id"),
     name |-> Upd(m, u, "name"),
     remote_file_key |-> Upd(m, u, "remote_file_key"),
     in_vector_store |-> Upd(m, u, "in_vector_store")]

\* _update_resource_metadata_in_kb: the first entry with the resource's id
\* takes the updates, and the knowledge base is saved when one was found.
update_resource_metadata_in_kb(st, kb_id, rid, u, f) ==
    LET g == svc_get_knowledgebase_by_id(st, kb_id)
        rs == g.val.resources
        hits == {i \in 1 .. Len(rs) : rs[i].resource_id = rid}
        first == CHOOSE i \in hits : \A j \in hits : i <= j
        new == [i \in 1 .. Len(rs) |-> IF i = first THEN SyncedMeta(rs[i], u) ELSE rs[i]]
    IN  Wrap(IF g.exc /= None THEN g
             ELSE IF hits = {} THEN Ret(st, <<>>)
             ELSE kb_update_kb(st, kb_id, [resources |-> new], f.kbsave),
             {}, "KBException")

\* update_resource
svc_update_resource(st, rid, u, f) ==
    LET a == ra_update_resource(st, rid, u, f.rsave)
        g == svc_get_resource_by_id(a.st, rid)
        knowledgebase_id == g.val.knowledgebase_id
    IN  Wrap(IF a.exc /= None THEN a
             ELSE IF g.exc /= None THEN g
             ELSE IF knowledgebase_id /= None
                  THEN update_resource_metadata_in_kb(g.st, knowledgebase_id, rid, u, f)
                  ELSE Ret(g.st, <<>>),
             {"InvalidNameError"}, "ResourceException")

svc_remove_resources_from_kb(st, kb_id, ids, f) ==
    Wrap(kb_remove_resources(st, kb_id, ids, f.kbsave),
         {"KnowledgeBaseNotFound", "ResourceDeleteError"}, "KBException")

\* delete_resources: one document after the other, stopping at the first
\* exception; what was deleted before it stays deleted.
RECURSIVE svc_delete_resources_from(_, _, _, _)
svc_delete_resources_from(st, ids, i, f) ==
    IF i > Len(ids) THEN Ret(st, <<>>)
    ELSE LET d == Wrap(ra_delete_resource(st, ids[i], f.rdelete),
                       {"CannotDeleteResource"}, "ResourceException")
         IN  IF d.exc /= None THEN d ELSE svc_delete_resources_from(d.st, ids, i + 1, f)

svc_delete_resources(st, ids, f) == svc_delete_resources_from(st, ids, 1, f)

svc_delete_knowledgebase(st, kb_id, f) ==
    Wrap(kb_delete(st, kb_id, f.kbdelete), {}, "KBException")

-----------------------------------------------------------------------------
(* KnowledgeBaseService, file handling *)

\* The (success, result) pair of the single-file protocol: the resource
\* document the caller is handed on success, str(exception) on failure.
FileResult(ok, resource, msg) == [success |-> ok, resource |-> resource, error |-> msg]

\* The dictionary a resource is created from: user_id only when given.
ResourceDict(file, knowledgebase_id, knowledgebase_name, user_id) ==
    IF user_id /= None
    THEN [name |-> file, knowledgebase_id |-> knowledgebase_id,
          knowledgebase_name |-> knowledgebase_name, user_id |-> user_id]
    ELSE [name |-> file, knowledgebase_id |-> knowledgebase_id,
          knowledgebase_name |-> knowledgebase_name]

\* add_file_to_filestore uploading first and creating the record, with the
\* key, only for an uploaded object (not what the service does).
add_file_to_filestore_UploadFirst(st, file, remote_dir, knowledgebase_id, knowledgebase_name, visibility, user_id, f) ==
    LET up == upload_file(st, remote_dir, file, 0, f.upload)
        c == svc_create_resource(
                 up.st, [ResourceDict(file, knowledgebase_id, knowledgebase_name, user_id)
                             EXCEPT !.name = file] @@ [remote_file_key |-> up.val.file_key], f)
        del == delete_file(c.st, up.val.file_key, f.delete_file)
    IN  IF up.exc /= None THEN up
        ELSE IF ~up.val.success THEN Ret(up.st, FileResult(FALSE, NoDoc, "upload failed"))
        ELSE IF c.exc = None THEN Ret(c.st, FileResult(TRUE, c.val, None))
        ELSE IF del.exc /= None THEN del
        ELSE Ret(del.st, FileResult(FALSE, NoDoc, c.exc))

\* add_file_to_filestore without the compensating delete of the uploaded
\* object.
add_file_to_filestore_NoRollback(st, file, remote_dir, knowledgebase_id, knowledgebase_name, visibility, user_id, f) ==
    LET c == svc_create_resource(
                 st, ResourceDict(file, knowledgebase_id, knowledgebase_name, user_id), f)
        resource == c.val
        up == upload_file(c.st, remote_dir, file, resource.resource_id, f.upload)
        upd == svc_update_resource(up.st, resource.resource_id,
                                   [remote_file_key |-> up.val.file_key], f)
    IN  IF c.exc /= None THEN Ret(c.st, FileResult(FALSE, NoDoc, c.exc))
        ELSE IF up.exc /= None THEN up
        ELSE IF ~up.val.success THEN Ret(up.st, FileResult(FALSE, NoDoc, "upload failed"))
        ELSE IF upd.exc = None THEN Ret(upd.st, FileResult(TRUE, resource, None))
        ELSE Ret(upd.st, FileResult(FALSE, NoDoc, upd.exc))

\* add_file_to_filestore with a rollback of the resource record when the
\* upload is reported as failed.
add_file_to_filestore_DropRecord(st, file, remote_dir, knowledgebase_id, knowledgebase_name, visibility, user_id, f) ==
    LET c == svc_create_resource(
                 st, ResourceDict(file, knowledgebase_id, knowledgebase_name, user_id), f)
        resource == c.val
        up == upload_file(c.st, remote_dir, file, resource.resource_id, f.upload)
        upd == svc_update_resource(up.st, resource.resource_id,
                                   [remote_file_key |-> up.val.file_key], f)
        del == delete_file(upd.st, up.val.file_key, f.delete_file)
    IN  IF c.exc /= None THEN Ret(c.st, FileResult(FALSE, NoDoc, c.exc))
        ELSE IF up.exc /= None THEN up
        ELSE IF ~up.val.success
             THEN Ret([up.st EXCEPT !.res[resource.resource_id] = NoDoc],
                      FileResult(FALSE, NoDoc, "upload failed"))
        ELSE IF upd.exc = None THEN Ret(upd.st, FileResult(TRUE, resource, None))
        ELSE IF del.exc /= None THEN del
        ELSE Ret(del.st, FileResult(FALSE, NoDoc, upd.exc))

\* add_file_to_filestore
add_file_to_filestore(st, file, remote_dir, knowledgebase_id, knowledgebase_name, visibility, user_id, f) ==
    LET c == svc_create_resource(
                 st, ResourceDict(file, knowledgebase_id, knowledgebase_name, user_id), f)
        resource == c.val
        up == upload_file(c.st, remote_dir, file, resource.resource_id, f.upload)
        upd == svc_update_resource(up.st, resource.resource_id,
                                   [remote_file_key |-> up.val.file_key], f)
        del == delete_file(upd.st, up.val.file_key, f.delete_file)
    IN  IF c.exc /= None THEN Ret(c.st, FileResult(FALSE, NoDoc, c.exc))
        ELSE IF up.exc /= None THEN up
        ELSE IF ~up.val.success THEN Ret(up.st, FileResult(FALSE, NoDoc, "upload failed"))
        ELSE IF upd.exc = None THEN Ret(upd.st, FileResult(TRUE, resource, None))
        ELSE IF del.exc /= None THEN del
        ELSE Ret(del.st, FileResult(FALSE, NoDoc, upd.exc))

\* add_files_to_filestore calls self.handle_single_file for every file; the
\* class defines no attribute of that name, so the call is an AttributeError.
handle_single_file(st, file, remote_dir, knowledgebase_id, knowledgebase_name, visibility, user_id, f) ==
    Raise(st, "AttributeError")

UploadSummary(successes, errors) == [successes |-> successes, errors |-> errors]

\* The attach of the successes and the summary, after the loop.
AttachAndSummarise(st, knowledgebase_id, successes, errors, f) ==
    LET rs == [i \in 1 .. Len(successes) |-> successes[i].resource]
        a == svc_add_resources(st, knowledgebase_id, rs, f)
    IN  IF successes = <<>> THEN Ret(st, UploadSummary(successes, errors))
        ELSE IF IsA(a.exc, "ResourceAdditionError") \/ IsA(a.exc, "KBException")
             THEN Raise(a.st, "RemoteFileManagerAddError")
             ELSE IF a.exc /= None THEN a
             ELSE Ret(a.st, UploadSummary(successes, errors))

\* The loop of add_files_to_filestore from file i on; fs[i] holds the
\* collaborators' outcomes for file i, f those of the attach.  An exception
\* of the per-file call leaves the loop, and the method, at once.
RECURSIVE UploadLoop(_, _, _, _, _, _, _, _, _, _, _, _)
UploadLoop(st, user_id, remote_dir, knowledgebase_id, knowledgebase_name, files, visibility, i, successes, errors, fs, f) ==
    IF i > Len(files)
    THEN AttachAndSummarise(st, knowledgebase_id, successes, errors, f)
    ELSE LET r == handle_single_file(st, files[i], remote_dir, knowledgebase_id,
                                     knowledgebase_name, visibility, user_id, fs[i])
             closed == Log(r.st, Ev("file.close", i, NoKey, None))
         IN  IF r.exc /= None THEN r
             ELSE UploadLoop(closed, user_id, remote_dir, knowledgebase_id, knowledgebase_name,
                             files, visibility, i + 1,
                             IF r.val.success
                             THEN Append(successes, [filename |-> files[i], resource |-> r.val.resource])
                             ELSE successes,
                             IF r.val.success
                             THEN errors
                             ELSE Append(errors, [filename |-> files[i], error_message |-> r.val.error]),
                             fs, f)

\* add_files_to_filestore
add_files_to_filestore(st, user_id, remote_dir, knowledgebase_id, knowledgebase_name, files, visibility, fs, f) ==
    UploadLoop(st, user_id, remote_dir, knowledgebase_id, knowledgebase_name, files, visibility,
               1, <<>>, <<>>, fs, f)

\* move_file_in_file_store without the test of response.success: the key of
\* the response is saved whatever the store answered.
move_file_in_file_store_Unchecked(st, resource, new_dir, f) ==
    LET old_key == resource.remote_file_key
        m == move_file(st, old_key, new_dir, resource.name, f.move_file)
        moved == [resource EXCEPT !.remote_file_key = m.val.file_key]
        saved == IF f.rsave = "fail"
                 THEN Raise(m.st, "DbError")
                 ELSE Ret(Log([m.st EXCEPT !.res[resource.resource_id] = moved],
                              Ev("resource.save", resource.resource_id, NoKey, None)), <<>>)
    IN  Wrap(IF m.exc /= None THEN m ELSE saved,
             {"RemoteFileManagerMoveError"}, "RemoteFileManagerMoveError")

\* move_file_in_file_store; resource is the document the caller holds, and
\* resource.save() writes that document, its new key included.
move_file_in_file_store(st, resource, new_dir, f) ==
    LET old_key == resource.remote_file_key
        m == move_file(st, old_key, new_dir, resource.name, f.move_file)
        moved == [resource EXCEPT !.remote_file_key = m.val.file_key]
        saved == IF f.rsave = "fail"
                 THEN Raise(m.st, "DbError")
                 ELSE Ret(Log([m.st EXCEPT !.res[resource.resource_id] = moved],
                              Ev("resource.save", resource.resource_id, NoKey, None)), <<>>)
    IN  Wrap(IF m.exc /= None THEN m
             ELSE IF m.val.success THEN saved
             ELSE Raise(m.st, "RemoteFileManagerMoveError"),
             {"RemoteFileManagerMoveError"}, "RemoteFileManagerMoveError")

\* delete_file_from_file_store
delete_file_from_file_store(st, file_key, f) ==
    LET d == delete_file(st, file_key, f.delete_file)
    IN  Wrap(IF d.exc /= None THEN d
             ELSE IF ~d.val.success THEN Raise(d.st, "RemoteFileManagerDeleteError")
             ELSE Ret(d.st, <<>>),
             {"RemoteFileManagerDeleteError"}, "RemoteFileManagerDeleteError")

\* delete_directory_from_file_store
delete_directory_from_file_store(st, dir_key, f) ==
    LET d == delete_directory(st, dir_key, f.delete_directory)
    IN  Wrap(IF d.exc /= None THEN d
             ELSE IF ~d.val.success THEN Raise(d.st, "RemoteFileManagerDeleteError")
             ELSE Ret(d.st, <<>>),
             {"RemoteFileManagerDeleteError"}, "RemoteFileManagerDeleteError")

-----------------------------------------------------------------------------
(* AppService: app/services/app_service.py *)

\* try: body  except c1: raise e1  except c2: raise e2 ...: the first clause
\* whose class the exception belongs to replaces it; no clause, it goes on.
RECURSIVE Catch(_, _)
Catch(r, clauses) ==
    IF r.exc = None \/ clauses = <<>> THEN r
    ELSE IF IsA(r.exc, Head(clauses)[1]) THEN Raise(r.st, Head(clauses)[2])
    ELSE Catch(r, Tail(clauses))

max_depth == 2

\* validators.slug on the names and ids of the model.
IsSlug(s) == s \in {"kb", "f1", "f2", "u1", "u2", "k1", "k2", "d1", "d2"}

\* construct_directory_key: validates the path and returns None.
construct_directory_key(st, directories) ==
    IF directories = <<>> \/ Len(directories) > max_depth
    THEN Raise(st, "InvalidPathError")
    ELSE IF \E i \in 1 .. Len(directories) : ~IsSlug(directories[i])
         THEN Raise(st, "InvalidPathError")
         ELSE Ret(st, None)

\* name.replace(' ', '-') on the names of the model.
Hyphenate(s) ==
    CASE s = "my  kb" -> "my--kb"
      [] OTHER -> s

\* '  ' in name
HasDoubleSpace(s) == s \in {"my  kb"}

\* validate_name
validate_name(st, name) ==
    IF HasDoubleSpace(Strip(name)) THEN Raise(st, "HTTP400")
    ELSE IF ~IsSlug(Hyphenate(Strip(name))) THEN Raise(st, "HTTP400")
    ELSE Ret(st, <<>>)

\* The characters of a name spelled out: "a" stands for a lower-case letter
\* or a digit, "B" for any other printable character.
Alphabet == {"a", "B", " ", "-"}

\* str.strip() of a spelled-out name: leading, then trailing spaces go.
RECURSIVE lstrip(_)
lstrip(s) == IF s /= <<>> /\ Head(s) = " " THEN lstrip(Tail(s)) ELSE s

RECURSIVE rstrip(_)
rstrip(s) == IF s /= <<>> /\ s[Len(s)] = " " THEN rstrip(SubSeq(s, 1, Len(s) - 1)) ELSE s

strip(s) == rstrip(lstrip(s))

\* '  ' in name
contains_double_space(s) == \E i \in 1 .. Len(s) - 1 : s[i] = " " /\ s[i + 1] = " "

\* name.replace(' ', '-')
replace_spaces(s) == [i \in 1 .. Len(s) |-> IF s[i] = " " THEN "-" ELSE s[i]]

\* validators.slug: ^[a-z0-9]+(?:-[a-z0-9]+)*$, and a falsy result for "".
slug(s) ==
    /\ s /= <<>>
    /\ \A i \in 1 .. Len(s) : s[i] \in {"a", "-"}
    /\ s[1] /= "-"
    /\ s[Len(s)] /= "-"
    /\ \A i \in 1 .. Len(s) - 1 : ~(s[i] = "-" /\ s[i + 1] = "-")

\* validate_name without the strip (not what the service does).
validate_name_spelled_Unstripped(st, name) ==
    IF contains_double_space(name) THEN Raise(st, "HTTP400")
    ELSE IF ~slug(replace_spaces(name)) THEN Raise(st, "HTTP400")
    ELSE Ret(st, <<>>)

\* validate_name on a spelled-out name.
validate_name_spelled(st, name) ==
    IF contains_double_space(strip(name)) THEN Raise(st, "HTTP400")
    ELSE IF ~slug(replace_spaces(strip(name))) THEN Raise(st, "HTTP400")
    ELSE Ret(st, <<>>)

\* check_permission
check_permission(st, entity, user_id) ==
    IF entity.visibility /= PRIVATE THEN Ret(st, <<>>)
    ELSE IF entity.user_id /= user_id THEN Raise(st, "HTTP403")
    ELSE Ret(st, <<>>)

app_get_knowledgebase(st, kb_id) ==
    Catch(svc_get_knowledgebase_by_id(st, kb_id),
          << <<"KnowledgeBaseNotFound", "HTTP404">>, <<"KBException", "HTTP500">> >>)

app_get_resource(st, resource_id) ==
    Catch(svc_get_resource_by_id(st, resource_id),
          << <<"ResourceNotFound", "HTTP404">>, <<"ResourceException", "HTTP500">> >>)

\* The dictionary a knowledge base is created from: user_id only when given.
KbCreateDict(id, name, remote_dir, visibility, user_id) ==
    IF user_id /= None
    THEN [id |-> id, name |-> name, remote_dir |-> remote_dir, visibility |-> visibility,
          user_id |-> user_id]
    ELSE [id |-> id, name |-> name, remote_dir |-> remote_dir, visibility |-> visibility]

\* create_knowledgebase validating the name only after the knowledge base
\* was persisted (not what the service does).
app_create_knowledgebase_ValidateLate(st, name, visibility, user_id, files, knowledgebase_id, fs, f) ==
    LET dk == construct_directory_key(
                  st, IF user_id /= None THEN <<user_id, knowledgebase_id>>
                                         ELSE <<knowledgebase_id>>)
        remote_dir == dk.val
        c == Catch(svc_create_knowledgebase(
                       st, KbCreateDict(knowledgebase_id, name, remote_dir, visibility, user_id), f),
                   << <<"CannotCreateKnowledgeBase", "HTTP400">>, <<"KBException", "HTTP400">> >>)
        v == validate_name(c.st, name)
    IN  IF dk.exc /= None THEN dk
        ELSE IF c.exc /= None THEN c
        ELSE IF v.exc /= None THEN v
        ELSE Catch(add_files_to_filestore(c.st, user_id, remote_dir, knowledgebase_id, name,
                                          files, visibility, fs, f),
                   << <<"KBException", "HTTP500">> >>)

\* create_knowledgebase running the batch upload before it persists the
\* knowledge base (not what the service does).
app_create_knowledgebase_UploadFirst(st, name, visibility, user_id, files, knowledgebase_id, fs, f) ==
    LET v == validate_name(st, name)
        dk == construct_directory_key(
                  st, IF user_id /= None THEN <<user_id, knowledgebase_id>>
                                         ELSE <<knowledgebase_id>>)
        remote_dir == dk.val
        b == Catch(add_files_to_filestore(st, user_id, remote_dir, knowledgebase_id, name,
                                          files, visibility, fs, f),
                   << <<"KBException", "HTTP500">> >>)
        c == Catch(svc_create_knowledgebase(
                       b.st, KbCreateDict(knowledgebase_id, name, remote_dir, visibility, user_id), f),
                   << <<"CannotCreateKnowledgeBase", "HTTP400">>, <<"KBException", "HTTP400">> >>)
    IN  IF v.exc /= None THEN v
        ELSE IF dk.exc /= None THEN dk
        ELSE IF b.exc /= None THEN b
        ELSE IF c.exc /= None THEN c
        ELSE Ret(c.st, b.val)

\* create_knowledgebase; knowledgebase_id is the id PydanticObjectId() makes.
app_create_knowledgebase(st, name, visibility, user_id, files, knowledgebase_id, fs, f) ==
    LET v == validate_name(st, name)
        dk == construct_directory_key(
                  st, IF user_id /= None THEN <<user_id, knowledgebase_id>>
                                         ELSE <<knowledgebase_id>>)
        remote_dir == dk.val
        c == Catch(svc_create_knowledgebase(
                       st, KbCreateDict(knowledgebase_id, name, remote_dir, visibility, user_id), f),
                   << <<"CannotCreateKnowledgeBase", "HTTP400">>, <<"KBException", "HTTP400">> >>)
    IN  IF v.exc /= None THEN v
        ELSE IF dk.exc /= None THEN dk
        ELSE IF c.exc /= None THEN c
        ELSE Catch(add_files_to_filestore(c.st, user_id, remote_dir, knowledgebase_id, name,
                                          files, visibility, fs, f),
                   << <<"KBException", "HTTP500">> >>)

\* add_resources
app_add_resources(st, kb_id, files, user_id, fs, f) ==
    LET g == app_get_knowledgebase(st, kb_id)
        kb == g.val
        p == check_permission(g.st, kb, user_id)
    IN  IF g.exc /= None THEN g
        ELSE IF p.exc /= None THEN p
        ELSE Catch(add_files_to_filestore(p.st, user_id, kb.remote_dir, kb_id, kb.name,
                                          files, kb.visibility, fs, f),
                   << <<"KBException", "HTTP500">> >>)

\* rename_knowledgebase that also re-keys the directory after the new name
\* (not what the service does).
app_rename_knowledgebase_Rekeyed(st, kb_id, new_name, user_id, f) ==
    LET g == app_get_knowledgebase(st, kb_id)
        p == check_permission(g.st, g.val, user_id)
    IN  IF g.exc /= None THEN g
        ELSE IF p.exc /= None THEN p
        ELSE Catch(svc_update_knowledgebase(p.st, kb_id,
                                            [name |-> new_name, remote_dir |-> Strip(new_name)], f),
                   << <<"InvalidNameError", "HTTP400">>, <<"KBException", "HTTP500">> >>)

\* rename_knowledgebase
app_rename_knowledgebase(st, kb_id, new_name, user_id, f) ==
    LET g == app_get_knowledgebase(st, kb_id)
        p == check_permission(g.st, g.val, user_id)
    IN  IF g.exc /= None THEN g
        ELSE IF p.exc /= None THEN p
        ELSE Catch(svc_update_knowledgebase(p.st, kb_id, [name |-> new_name], f),
                   << <<"InvalidNameError", "HTTP400">>, <<"KBException", "HTTP500">> >>)

\* rename_resource
app_rename_resource(st, resource_id, new_name, user_id, f) ==
    LET g == app_get_resource(st, resource_id)
        p == check_permission(g.st, g.val, user_id)
    IN  IF g.exc /= None THEN g
        ELSE IF p.exc /= None THEN p
        ELSE Catch(svc_update_resource(p.st, resource_id, [name |-> new_name], f),
                   << <<"InvalidNameError", "HTTP400">>, <<"ResourceException", "HTTP500">> >>)

\* move_resource_to_another_kb: the detach is a call of
\* self.remove_resources_from_kb, which AppService does not define.
app_move_resource_to_another_kb(st, source_kb_id, target_kb_id, resource_id, user_id, f) ==
    LET s == app_get_knowledgebase(st, source_kb_id)
        t == app_get_knowledgebase(s.st, target_kb_id)
        ps == check_permission(t.st, s.val, user_id)
        pt == check_permission(ps.st, t.val, user_id)
        g == app_get_resource(pt.st, resource_id)
        pr == check_permission(g.st, g.val, user_id)
        m == Catch(move_file_in_file_store(pr.st, g.val, t.val.remote_dir, f),
                   << <<"RemoteFileManagerMoveError", "HTTP500">> >>)
        detach == Raise(m.st, "AttributeError")
        attach == svc_add_resources(detach.st, target_kb_id, <<g.val>>, f)
    IN  IF s.exc /= None THEN s
        ELSE IF t.exc /= None THEN t
        ELSE IF ps.exc /= None THEN ps
        ELSE IF pt.exc /= None THEN pt
        ELSE IF g.exc /= None THEN g
        ELSE IF pr.exc /= None THEN pr
        ELSE IF m.exc /= None THEN m
        ELSE Catch(IF detach.exc /= None THEN detach ELSE attach,
                   << <<"KBException", "HTTP500">> >>)

\* The loop of delete_resources: load and check every resource; the value is
\* the last resource loaded, NoDoc when the list is empty.
RECURSIVE CheckAll(_, _, _, _, _)
CheckAll(st, resource_ids, i, user_id, last) ==
    IF i > Len(resource_ids) THEN Ret(st, last)
    ELSE LET g == app_get_resource(st, resource_ids[i])
             p == check_permission(g.st, g.val, user_id)
         IN  IF g.exc /= None THEN g
             ELSE IF p.exc /= None THEN p
             ELSE CheckAll(p.st, resource_ids, i + 1, user_id, g.val)

\* delete_resources with the records deleted before the resources are loaded
\* and checked.
app_delete_resources_DeleteFirst(st, resource_ids, user_id, f) ==
    LET del == Catch(svc_delete_resources(st, resource_ids, f),
                     << <<"CannotDeleteResource", "HTTP404">>, <<"ResourceException", "HTTP500">> >>)
        c == CheckAll(del.st, resource_ids, 1, user_id, NoDoc)
    IN  IF del.exc /= None THEN del ELSE c

\* delete_resources: the storage delete takes the key of the variable the
\* loop left, which is unbound when the list was empty.
app_delete_resources(st, resource_ids, user_id, f) ==
    LET c == CheckAll(st, resource_ids, 1, user_id, NoDoc)
        resource == c.val
        d == IF resource = NoDoc
             THEN Raise(c.st, "UnboundLocalError")
             ELSE Catch(delete_file_from_file_store(c.st, resource.remote_file_key, f),
                        << <<"RemoteFileManagerDeleteError", "HTTP500">> >>)
    IN  IF c.exc /= None THEN c
        ELSE IF d.exc /= None THEN d
        ELSE Catch(svc_delete_resources(d.st, resource_ids, f),
                   << <<"CannotDeleteResource", "HTTP404">>, <<"ResourceException", "HTTP500">> >>)

\* delete_knowledgebase with the cascade started whatever the deletion of the
\* directory answered.
app_delete_knowledgebase_IgnoreStore(st, kb_id, user_id, f) ==
    LET g == app_get_knowledgebase(st, kb_id)
        p == check_permission(g.st, g.val, user_id)
        d == Catch(delete_directory_from_file_store(p.st, g.val.remote_dir, f),
                   << <<"RemoteFileManagerDeleteError", "HTTP500">> >>)
    IN  IF g.exc /= None THEN g
        ELSE IF p.exc /= None THEN p
        ELSE Catch(svc_delete_knowledgebase(d.st, kb_id, f), << <<"KBException", "HTTP500">> >>)

\* delete_knowledgebase
app_delete_knowledgebase(st, kb_id, user_id, f) ==
    LET g == app_get_knowledgebase(st, kb_id)
        p == check_permission(g.st, g.val, user_id)
        d == Catch(delete_directory_from_file_store(p.st, g.val.remote_dir, f),
                   << <<"RemoteFileManagerDeleteError", "HTTP500">> >>)
    IN  IF g.exc /= None THEN g
        ELSE IF p.exc /= None THEN p
        ELSE IF d.exc /= None THEN d
        ELSE Catch(svc_delete_knowledgebase(d.st, kb_id, f), << <<"KBException", "HTTP500">> >>)

-----------------------------------------------------------------------------
(* The routes: app/routers/knowledge.py.  A route is called with the        *)
(* application service and the user its dependencies gave it (None when    *)
(* the request is not authenticated).                                      *)

\* The storage keys of the successes of an upload summary.
SuccessKeys(summary) ==
    [i \in 1 .. Len(summary.successes) |-> summary.successes[i].resource.remote_file_key]

\* What a route answers after the upload: the summary, and the payload of
\* the TO_LLAMA_DOCS event it hands to the background tasks.
Answer(r) ==
    IF r.exc /= None THEN r
    ELSE Ret(r.st, [upload_summary |-> r.val, remote_file_keys |-> SuccessKeys(r.val)])

\* The create route answering 401 to a private request without a user (not
\* what the route does).
route_create_knowledgebase_Unauthorized(st, name, visibility, user_id, files, knowledgebase_id, fs, f) ==
    IF user_id = None /\ visibility = PRIVATE
    THEN Raise(st, "HTTP401")
    ELSE Answer(app_create_knowledgebase(st, name, visibility, user_id, files, knowledgebase_id, fs, f))

\* POST /create
route_create_knowledgebase(st, name, visibility, user_id, files, knowledgebase_id, fs, f) ==
    IF user_id = None /\ visibility = PRIVATE
    THEN Raise(st, "HTTP400")
    ELSE Answer(app_create_knowledgebase(st, name, visibility, user_id, files, knowledgebase_id, fs, f))

\* POST /add-resources/{kb_id}
route_add_resources(st, kb_id, files, user_id, fs, f) ==
    Answer(app_add_resources(st, kb_id, files, user_id, fs, f))

-----------------------------------------------------------------------------
(* The state machine *)

\* The arguments of an operation, as out records them.
NoArgs ==
    [user |-> None, kb |-> None, kb2 |-> None, rid |-> 0, name |-> None,
     dir |-> None, files |-> <<>>, u |-> <<>>, f |-> NoFault, fs |-> <<>>, vis |-> None,
     text |-> <<>>, s3 |-> NoS3, key |-> NoKey]

\* No call is in progress: the last response was taken.
Idle == [op |-> "idle", a |-> NoArgs, exc |-> None, val |-> <<>>, tr |-> <<>>]

\* The operation op, called with arguments a, ended as r says: the state it
\* leaves is the next state, and out records the call and its outcome.
Done(op, a, r) ==
    /\ \A k \in KbIds : r.st.kbs[k] /= NoDoc => Len(r.st.kbs[k].resources) <= MaxMeta
    /\ kbs' = r.st.kbs
    /\ res' = r.st.res
    /\ made' = r.st.made
    /\ objects' = r.st.objs
    /\ out' = [op |-> op, a |-> a, exc |-> r.exc, val |-> r.val, tr |-> r.st.tr]
    /\ inflight' = inflight

\* The coroutines that run add_resources at the same time on the event loop,
\* one call each; each is either not started, suspended between get_kb_by_id
\* and kb.save() holding the document it read, or finished.
Tasks == {1, 2}

NoTask == [pc |-> "idle", kb |-> NoDoc, rs |-> <<>>, exc |-> None]

\* The knowledge base k as KnowledgeBaseAdapter.create persists it for owner
\* user, with the directory key of k and no resource yet.
SeedKb(k, user, vis) ==
    KnowledgeBaseDocument(KbCreateDict(k, "kb", DirOf(k), vis, user))

\* Resource 1 as ResourceAdapter.create_resource persists it, linked to
\* knowledge base k (or to none), and with the key of its uploaded file when
\* uploaded.
SeedRes(user, vis, k, uploaded) ==
    [ResourceDocument(1, [name |-> "f1", user_id |-> user, visibility |-> vis,
                          knowledgebase_id |-> k,
                          knowledgebase_name |-> IF k = None THEN None ELSE "kb"])
     EXCEPT !.remote_file_key = IF uploaded THEN construct_file_key(DirOf(k), "f1") ELSE NoKey]

\* The collections and the store as the service finds them: knowledge base k1
\* of user u1, possibly k2 of user u2, and at most one resource, which is
\* unlinked, or linked to k1 with its file uploaded or not and its metadata
\* embedded in k1 or not.  Every such state is one the adapters' create,
\* update and add_resources and the store's upload_file produce.
Init ==
    \E v1 \in Visibility, k2 \in {NoDoc} \cup {SeedKb("k2", "u2", v) : v \in Visibility},
       r \in {NoDoc}
             \cup {SeedRes(user, v, None, FALSE) : user \in Users, v \in Visibility}
             \cup {SeedRes(user, v, "k1", up) : user \in Users, v \in Visibility, up \in BOOLEAN},
       embedded \in BOOLEAN :
        /\ embedded => r /= NoDoc /\ r.knowledgebase_id = "k1"
        /\ kbs = [k \in KbIds |->
                    IF k = "k2" THEN k2
                    ELSE [SeedKb("k1", "u1", v1) EXCEPT
                            !.resources = IF embedded THEN <<to_metadata(r)>> ELSE <<>>]]
        /\ res = [i \in ResIds |-> IF i = 1 THEN r ELSE NoDoc]
        /\ made = IF r = NoDoc THEN 0 ELSE 1
        /\ objects = IF r /= NoDoc /\ r.remote_file_key /= NoKey THEN {r.remote_file_key} ELSE {}
        /\ out = Idle
        /\ inflight = [p \in Tasks |-> NoTask]

\* The collections of a new deployment: no knowledge base, no resource,
\* nothing in the store.
InitEmpty ==
    /\ kbs = [k \in KbIds |-> NoDoc]
    /\ res = [i \in ResIds |-> NoDoc]
    /\ made = 0
    /\ objects = {}
    /\ out = Idle
    /\ inflight = [p \in Tasks |-> NoTask]

\* The collections right after both knowledge bases were created: no
\* resource yet, both lists empty, nothing in the store.
InitFresh ==
    /\ \E v1 \in Visibility, v2 \in Visibility :
        kbs = [k \in KbIds |-> IF k = "k1" THEN SeedKb("k1", "u1", v1) ELSE SeedKb("k2", "u2", v2)]
    /\ res = [i \in ResIds |-> NoDoc]
    /\ made = 0
    /\ objects = {}
    /\ out = Idle
    /\ inflight = [p \in Tasks |-> NoTask]

Exists(k) == kbs[k] /= NoDoc
Live(i) == res[i] /= NoDoc

\* Batches of at most MaxFiles files, named f1, f2, f1, ...
Batches == {[i \in 1 .. n |-> IF i % 2 = 1 THEN "f1" ELSE "f2"] : n \in 0 .. MaxFiles}

\* The outcomes of the uploads of a batch of n files, one per file.
UploadPlans(n) == [1 .. n -> {[NoFault EXCEPT !.upload = o] : o \in StoreOutcomes}]

\* KnowledgeBaseService.add_file_to_filestore, called for knowledge base k.
AddFileToFilestore ==
    /\ out = Idle
    /\ \E k \in KbIds, file \in FileNames, user \in Actors,
       c \in DbOutcomes, up \in StoreOutcomes, s \in DbOutcomes, d \in StoreOutcomes :
        LET f == [NoFault EXCEPT !.rcreate = c, !.upload = up, !.rsave = s, !.delete_file = d]
        IN  /\ Exists(k)
            /\ made < MaxRes
            /\ Done("add_file_to_filestore",
                    [NoArgs EXCEPT !.kb = k, !.name = file, !.user = user, !.f = f],
                    add_file_to_filestore(Here, file, kbs[k].remote_dir, k, kbs[k].name,
                                          kbs[k].visibility, user, f))

\* KnowledgeBaseService.add_files_to_filestore, called for knowledge base k.
AddFilesToFilestore ==
    /\ out = Idle
    /\ \E k \in KbIds, files \in Batches, user \in Actors, a \in DbOutcomes :
      \E fs \in UploadPlans(Len(files)) :
        LET f == [NoFault EXCEPT !.kbsave = a]
        IN  /\ Exists(k)
            /\ made + Len(files) <= MaxRes
            /\ Done("add_files_to_filestore",
                    [NoArgs EXCEPT !.kb = k, !.files = files, !.user = user, !.f = f, !.fs = fs],
                    add_files_to_filestore(Here, user, kbs[k].remote_dir, k, kbs[k].name,
                                           files, kbs[k].visibility, fs, f))

\* KnowledgeBaseService.move_file_in_file_store of a persisted resource.
MoveFileInFileStore ==
    /\ out = Idle
    /\ \E i \in ResIds, k \in KbIds, m \in StoreOutcomes, s \in DbOutcomes :
        LET f == [NoFault EXCEPT !.move_file = m, !.rsave = s]
        IN  /\ Live(i)
            /\ Exists(k)
            /\ Done("move_file_in_file_store",
                    [NoArgs EXCEPT !.rid = i, !.kb = k, !.dir = kbs[k].remote_dir, !.f = f],
                    move_file_in_file_store(Here, res[i], kbs[k].remote_dir, f))

\* The updates of update_resource the model draws from.
Updates ==
    {[name |-> n] : n \in RawNames}
        \cup {[remote_file_key |-> construct_file_key(d, n)] : d \in {"d1", "d2"}, n \in {"f1"}}
        \cup {[in_vector_store |-> TRUE]}
        \cup {[name |-> " f2 ", in_vector_store |-> TRUE]}

\* KnowledgeBaseService.update_resource
UpdateResource ==
    /\ out = Idle
    /\ \E i \in ResIds, u \in Updates, s \in DbOutcomes, ks \in DbOutcomes :
        LET f == [NoFault EXCEPT !.rsave = s, !.kbsave = ks]
        IN  Done("update_resource", [NoArgs EXCEPT !.rid = i, !.u = u, !.f = f],
                 svc_update_resource(Here, i, u, f))

\* AppService.create_knowledgebase
AppCreateKnowledgebase ==
    /\ out = Idle
    /\ \E k \in KbIds, name \in {"kb", "my  kb"}, vis \in Visibility, user \in Actors,
       files \in Batches, c \in DbOutcomes, a \in DbOutcomes :
      \E fs \in UploadPlans(Len(files)) :
        LET f == [NoFault EXCEPT !.kbcreate = c, !.kbsave = a]
        IN  /\ ~Exists(k)
            /\ made + Len(files) <= MaxRes
            /\ Done("app.create_knowledgebase",
                    [NoArgs EXCEPT !.kb = k, !.name = name, !.files = files, !.user = user,
                                   !.f = f, !.fs = fs, !.vis = vis],
                    app_create_knowledgebase(Here, name, vis, user, files, k, fs, f))

\* AppService.add_resources
AppAddResources ==
    /\ out = Idle
    /\ \E k \in KbIds, user \in Actors, files \in Batches, a \in DbOutcomes :
      \E fs \in UploadPlans(Len(files)) :
        LET f == [NoFault EXCEPT !.kbsave = a]
        IN  /\ made + Len(files) <= MaxRes
            /\ Done("app.add_resources",
                    [NoArgs EXCEPT !.kb = k, !.files = files, !.user = user, !.f = f, !.fs = fs],
                    app_add_resources(Here, k, files, user, fs, f))

\* AppService.rename_knowledgebase
AppRenameKnowledgebase ==
    /\ out = Idle
    /\ \E k \in KbIds, name \in RawNames \cup {"my  kb"}, user \in Actors, s \in DbOutcomes :
        LET f == [NoFault EXCEPT !.kbsave = s]
        IN  Done("app.rename_knowledgebase",
                 [NoArgs EXCEPT !.kb = k, !.name = name, !.user = user, !.f = f],
                 app_rename_knowledgebase(Here, k, name, user, f))

\* AppService.rename_resource
AppRenameResource ==
    /\ out = Idle
    /\ \E i \in ResIds, name \in RawNames, user \in Actors, s \in DbOutcomes :
        LET f == [NoFault EXCEPT !.rsave = s]
        IN  Done("app.rename_resource",
                 [NoArgs EXCEPT !.rid = i, !.name = name, !.user = user, !.f = f],
                 app_rename_resource(Here, i, name, user, f))

\* AppService.move_resource_to_another_kb
AppMoveResourceToAnotherKb ==
    /\ out = Idle
    /\ \E src \in KbIds, tgt \in KbIds, i \in ResIds, user \in Actors,
       m \in StoreOutcomes, s \in DbOutcomes :
        LET f == [NoFault EXCEPT !.move_file = m, !.rsave = s]
        IN  Done("app.move_resource_to_another_kb",
                 [NoArgs EXCEPT !.kb = src, !.kb2 = tgt, !.rid = i, !.user = user, !.f = f],
                 app_move_resource_to_another_kb(Here, src, tgt, i, user, f))

\* Lists of at most two resource ids.
IdLists == UNION {[1 .. n -> ResIds] : n \in 0 .. 2}

\* AppService.delete_resources
AppDeleteResources ==
    /\ out = Idle
    /\ \E ids \in IdLists, user \in Actors, d \in StoreOutcomes, s \in DbOutcomes :
        LET f == [NoFault EXCEPT !.delete_file = d, !.rdelete = s]
        IN  Done("app.delete_resources",
                 [NoArgs EXCEPT !.files = ids, !.user = user, !.f = f],
                 app_delete_resources(Here, ids, user, f))

\* KnowledgeBaseService.delete_resources
DeleteResources ==
    /\ out = Idle
    /\ \E ids \in IdLists, s \in DbOutcomes :
        LET f == [NoFault EXCEPT !.rdelete = s]
        IN  Done("delete_resources", [NoArgs EXCEPT !.files = ids, !.f = f],
                 svc_delete_resources(Here, ids, f))

\* AppService.delete_knowledgebase
AppDeleteKnowledgebase ==
    /\ out = Idle
    /\ \E k \in KbIds, user \in Actors, d \in StoreOutcomes, s \in DbOutcomes :
        LET f == [NoFault EXCEPT !.delete_directory = d, !.kbdelete = s]
        IN  Done("app.delete_knowledgebase",
                 [NoArgs EXCEPT !.kb = k, !.user = user, !.f = f],
                 app_delete_knowledgebase(Here, k, user, f))

\* The create_dict of a resource named name of user, linked to no knowledge
\* base yet.
ResCreateDict(name, user) == [name |-> name, user_id |-> user]

\* KnowledgeBaseService.create_resource, called for user u1.
CreateResource ==
    /\ out = Idle
    /\ made < MaxRes
    /\ \E name \in FileNames, c \in DbOutcomes :
        Done("create_resource",
             [NoArgs EXCEPT !.name = name, !.user = "u1", !.f = [NoFault EXCEPT !.rcreate = c]],
             svc_create_resource(Here, ResCreateDict(name, "u1"), [NoFault EXCEPT !.rcreate = c]))

\* The documents of the resources of ids, as a caller that fetched them holds
\* them.
DocsOf(ids) == [n \in 1 .. Len(ids) |-> res[ids[n]]]

\* KnowledgeBaseService.add_resources, and with it the adapter's
\* add_resources, for documents the caller holds.
AddResources ==
    /\ out = Idle
    /\ \E k \in KbIds, ids \in IdLists, s \in DbOutcomes :
        /\ \A n \in 1 .. Len(ids) : Live(ids[n])
        /\ Done("add_resources",
                [NoArgs EXCEPT !.kb = k, !.files = ids, !.f = [NoFault EXCEPT !.kbsave = s]],
                svc_add_resources(Here, k, DocsOf(ids), [NoFault EXCEPT !.kbsave = s]))

\* KnowledgeBaseService.remove_resources_from_kb, and with it the adapter's
\* remove_resources.
RemoveResourcesFromKb ==
    /\ out = Idle
    /\ \E k \in KbIds, ids \in IdLists, s \in DbOutcomes :
        Done("remove_resources_from_kb",
             [NoArgs EXCEPT !.kb = k, !.files = ids, !.f = [NoFault EXCEPT !.kbsave = s]],
             svc_remove_resources_from_kb(Here, k, {ids[n] : n \in 1 .. Len(ids)},
                                          [NoFault EXCEPT !.kbsave = s]))

\* KnowledgeBaseAdapter.get_all_resources
GetAllResources ==
    /\ out = Idle
    /\ \E k \in KbIds :
        Done("get_all_resources", [NoArgs EXCEPT !.kb = k], kb_get_all_resources(Here, k))

\* Task p starts KnowledgeBaseAdapter.add_resources for the single resource
\* document of i and runs it up to the await of kb.save(): it holds the
\* document get_kb_by_id returned.  Other tasks run before it resumes.
AddResourcesRead(p) ==
    /\ inflight[p].pc = "idle"
    /\ \E k \in KbIds, i \in ResIds :
        LET g == kb_get_kb_by_id(Here, k)
        IN  /\ Live(i)
            /\ g.exc = None => Len(g.val.resources) < MaxMeta
            /\ inflight' = [inflight EXCEPT ![p] =
                    IF g.exc /= None
                    THEN [pc |-> "done", kb |-> NoDoc, rs |-> <<res[i]>>,
                          exc |-> "ResourceAdditionError"]
                    ELSE [pc |-> "read", kb |-> g.val, rs |-> <<res[i]>>, exc |-> None]]
    /\ UNCHANGED <<kbs, res, made, objects, out>>

\* Task p resumes: the rest of add_resources, on the document it holds.
AddResourcesSave(p) ==
    /\ inflight[p].pc = "read"
    /\ \E s \in DbOutcomes :
        LET r == kb_add_resources_save(Here, inflight[p].kb, inflight[p].rs, s)
        IN  /\ kbs' = r.st.kbs
            /\ inflight' = [inflight EXCEPT ![p].pc = "done", ![p].exc = r.exc]
    /\ UNCHANGED <<res, made, objects, out>>

\* POST /create; k is the id PydanticObjectId() makes for the knowledge base.
RouteCreateKnowledgebase ==
    /\ out = Idle
    /\ \E k \in KbIds, name \in {"kb", "my  kb"}, vis \in Visibility, user \in Actors,
       files \in Batches, c \in DbOutcomes, a \in DbOutcomes :
      \E fs \in UploadPlans(Len(files)) :
        LET f == [NoFault EXCEPT !.kbcreate = c, !.kbsave = a]
        IN  /\ ~Exists(k)
            /\ made + Len(files) <= MaxRes
            /\ Done("route.create_knowledgebase",
                    [NoArgs EXCEPT !.kb = k, !.name = name, !.files = files, !.user = user,
                                   !.f = f, !.fs = fs, !.vis = vis],
                    route_create_knowledgebase(Here, name, vis, user, files, k, fs, f))

\* POST /add-resources/{kb_id}
RouteAddResources ==
    /\ out = Idle
    /\ \E k \in KbIds, user \in Actors, files \in Batches, a \in DbOutcomes :
      \E fs \in UploadPlans(Len(files)) :
        LET f == [NoFault EXCEPT !.kbsave = a]
        IN  /\ made + Len(files) <= MaxRes
            /\ Done("route.add_resources",
                    [NoArgs EXCEPT !.kb = k, !.files = files, !.user = user, !.f = f, !.fs = fs],
                    route_add_resources(Here, k, files, user, fs, f))

\* The update dictionaries of a knowledge base: a name, padded or blank,
\* with and without another field.
KbUpdates ==
    {[name |-> n] : n \in RawNames}
        \cup {[name |-> n, visibility |-> v] : n \in RawNames, v \in Visibility}
        \cup {[visibility |-> v] : v \in Visibility}

\* KnowledgeBaseAdapter.update_kb
KbUpdateKb ==
    /\ out = Idle
    /\ \E k \in KbIds, u \in KbUpdates, c \in DbOutcomes :
        Done("adapter.update_kb",
             [NoArgs EXCEPT !.kb = k, !.u = u, !.f = [NoFault EXCEPT !.kbsave = c]],
             kb_update_kb(Here, k, u, c))

\* The update dictionaries of a resource, in the same way.
ResUpdates ==
    {[name |-> n] : n \in RawNames}
        \cup {[name |-> n, in_vector_store |-> TRUE] : n \in RawNames}
        \cup {[in_vector_store |-> TRUE]}

\* ResourceAdapter.update_resource
RaUpdateResource ==
    /\ out = Idle
    /\ \E i \in ResIds, u \in ResUpdates, c \in DbOutcomes :
        Done("adapter.update_resource",
             [NoArgs EXCEPT !.rid = i, !.u = u, !.f = [NoFault EXCEPT !.rsave = c]],
             ra_update_resource(Here, i, u, c))

\* The outcomes of the S3 client's calls an operation draws from.
S3Plans == [list : {"ok", "error"}, copy : {"ok"}, f1 : S3Outcomes, f2 : S3Outcomes]

\* S3Service.delete_directory
S3DeleteDirectory ==
    /\ out = Idle
    /\ \E d \in {DirOf(k) : k \in KbIds}, o \in S3Plans :
        Done("s3.delete_directory", [NoArgs EXCEPT !.dir = d, !.s3 = o],
             s3_delete_directory(Here, d, o))

\* S3Service.delete_file
S3DeleteFile ==
    /\ out = Idle
    /\ \E d \in {DirOf(k) : k \in KbIds}, n \in FileNames, o \in S3Outcomes :
        Done("s3.delete_file",
             [NoArgs EXCEPT !.dir = d, !.name = n, !.s3 = [NoS3 EXCEPT ![n] = o]],
             s3_delete_file(Here, construct_file_key(d, n), o))

\* S3Service.move_file of the object of file n in directory d
S3MoveFile ==
    /\ out = Idle
    /\ \E d \in {DirOf(k) : k \in KbIds}, new_dir \in {DirOf(k) : k \in KbIds},
          n \in FileNames, c \in {"ok", "error"}, o \in S3Outcomes :
        LET plan == [NoS3 EXCEPT !.copy = c, ![n] = o]
        IN  Done("s3.move_file",
                 [NoArgs EXCEPT !.key = construct_file_key(d, n), !.dir = new_dir, !.name = n,
                                !.s3 = plan],
                 s3_move_file(Here, construct_file_key(d, n), new_dir, n, plan))

\* The names of at most MaxLen characters.
SpelledNames == UNION {[1 .. n -> Alphabet] : n \in 0 .. MaxLen}

\* AppService.validate_name
ValidateName ==
    /\ out = Idle
    /\ \E name \in SpelledNames :
        Done("validate_name", [NoArgs EXCEPT !.text = name], validate_name_spelled(Here, name))

\* The caller takes the response of the call; the next call can start.
Return ==
    /\ out /= Idle
    /\ out' = Idle
    /\ UNCHANGED <<kbs, res, made, objects, inflight>>

Next ==
    \/ Return
    \/ AddFileToFilestore
    \/ AddFilesToFilestore
    \/ MoveFileInFileStore
    \/ UpdateResource
    \/ AppCreateKnowledgebase
    \/ AppAddResources
    \/ AppRenameKnowledgebase
    \/ AppRenameResource
    \/ AppMoveResourceToAnotherKb
    \/ AppDeleteResources
    \/ AppDeleteKnowledgebase
    \/ CreateResource
    \/ AddResources
    \/ RemoveResourcesFromKb
    \/ GetAllResources
    \/ \E p \in Tasks : AddResourcesRead(p)
    \/ \E p \in Tasks : AddResourcesSave(p)
    \/ RouteCreateKnowledgebase
    \/ RouteAddResources
    \/ ValidateName
    \/ S3DeleteDirectory
    \/ S3DeleteFile
    \/ KbUpdateKb
    \/ RaUpdateResource
    \/ DeleteResources
    \/ S3MoveFile

Spec == Init /\ [][Next]_vars

\* The single-file protocol alone.
NextFile ==
    \/ Return
    \/ AddFileToFilestore

SpecFile == Init /\ [][NextFile]_vars

\* The upload protocols alone.
NextUpload ==
    \/ Return
    \/ AddFileToFilestore
    \/ AddFilesToFilestore
    \/ AppCreateKnowledgebase
    \/ AppAddResources

SpecUpload == Init /\ [][NextUpload]_vars

\* The mutation flows of AppService alone.
NextApp ==
    \/ Return
    \/ AppAddResources
    \/ AppRenameKnowledgebase
    \/ AppRenameResource
    \/ AppMoveResourceToAnotherKb
    \/ AppDeleteResources
    \/ AppDeleteKnowledgebase

SpecApp == Init /\ [][NextApp]_vars

\* The service's operations on one resource alone.
NextResource ==
    \/ Return
    \/ MoveFileInFileStore
    \/ UpdateResource

SpecResource == Init /\ [][NextResource]_vars

\* The operations on the embedded list of a knowledge base alone.
NextList ==
    \/ Return
    \/ CreateResource
    \/ AddResources
    \/ RemoveResourcesFromKb
    \/ GetAllResources

SpecList == InitFresh /\ [][NextList]_vars

\* The collections after both knowledge bases and every resource were
\* created (ResourceAdapter.create_resource for user u1, files f1, f2, f1,
\* ...); the list of k1 holds no entry yet or the entry of resource 1, the
\* list of k2 none.
InitStocked ==
    /\ \E v1 \in Visibility, v2 \in Visibility, embedded \in BOOLEAN :
        kbs = [k \in KbIds |->
                IF k = "k2" THEN SeedKb("k2", "u2", v2)
                ELSE [SeedKb("k1", "u1", v1) EXCEPT
                        !.resources = IF embedded
                                      THEN <<to_metadata(ResourceDocument(1, ResCreateDict("f1", "u1")))>>
                                      ELSE <<>>]]
    /\ res = [i \in ResIds |->
                ResourceDocument(i, ResCreateDict(IF i % 2 = 1 THEN "f1" ELSE "f2", "u1"))]
    /\ made = MaxRes
    /\ objects = {}
    /\ out = Idle
    /\ inflight = [p \in Tasks |-> NoTask]

\* The requests that create knowledge bases and upload into them, from a
\* new deployment on.
NextRoute ==
    \/ Return
    \/ AppCreateKnowledgebase
    \/ RouteCreateKnowledgebase
    \/ RouteAddResources

SpecRoute == InitEmpty /\ [][NextRoute]_vars

\* The adapters' updates alone.
NextAdapter ==
    \/ Return
    \/ KbUpdateKb
    \/ RaUpdateResource

\* S3Service's deletes and moves alone.
NextS3 ==
    \/ Return
    \/ S3DeleteDirectory
    \/ S3DeleteFile
    \/ S3MoveFile

SpecS3 == Init /\ [][NextS3]_vars

\* The validation of names alone.
NextName ==
    \/ Return
    \/ ValidateName

SpecName == InitEmpty /\ [][NextName]_vars

\* add_resources calls of several tasks, interleaved at the await.
NextRace ==
    \/ \E p \in Tasks : AddResourcesRead(p)
    \/ \E p \in Tasks : AddResourcesSave(p)

SpecRace == InitStocked /\ [][NextRace]_vars

\* The deletion of resources, by the flow and by the service, on the stocked
\* database.
NextDelete ==
    \/ Return
    \/ AppDeleteResources
    \/ DeleteResources

SpecDelete == InitStocked /\ [][NextDelete]_vars

\* The flows that write the name of a knowledge base, from a new deployment
\* on.
NextKbName ==
    \/ Return
    \/ AppCreateKnowledgebase
    \/ AppRenameKnowledgebase

SpecKbName == InitEmpty /\ [][NextKbName]_vars

\* The adapters' updates on the stocked database.
SpecAdapter == InitStocked /\ [][NextAdapter]_vars

-----------------------------------------------------------------------------
(* Properties *)

\* The positions of the calls named ev in the trace tr of an operation.
CallsIn(tr, ev) == {n \in 1 .. Len(tr) : tr[n].ev = ev}
\* The same for the last operation.
Calls(ev) == CallsIn(out.tr, ev)
Called(ev) == Calls(ev) /= {}
\* The call named ev of the last operation (the first, were there several).
TheCall(ev) == out.tr[CHOOSE n \in Calls(ev) : \A m \in Calls(ev) : n <= m]
UploadCalls == Calls("upload_file:ok") \cup Calls("upload_file:fail") \cup Calls("upload_file:raise")
DeleteCalls == Calls("delete_file:ok") \cup Calls("delete_file:fail") \cup Calls("delete_file:raise")

\* add_file_to_filestore uploaded the object and update_resource then raised,
\* so the method did not report success.
PersistFailedAfterUpload ==
    /\ out.op = "add_file_to_filestore"
    /\ Called("upload_file:ok")
    /\ ~(out.exc = None /\ out.val.success)

\* The narrowest case of the above: the save of the key itself failed.
SaveFailedAfterUpload ==
    /\ PersistFailedAfterUpload
    /\ out.a.f.rsave = "fail"

\* C1 as stated: if persisting the file key fails after the object was
\* uploaded, the uploaded object is gone from storage when the operation
\* reports failure for the file.
C1_DeletedBeforeFailure ==
    SaveFailedAfterUpload =>
        /\ TheCall("upload_file:ok").key \notin objects
        /\ out.exc = None
        /\ ~out.val.success

\* C1, amended: if persisting the file key fails after the object was
\* uploaded, the operation ends with one delete_file call on the uploaded key,
\* made after the upload; when that delete succeeds the object is gone from
\* storage and the file is reported as failed; when it answers with failure
\* the file is reported as failed; when it raises, the exception leaves.
C1_RollbackIssued ==
    PersistFailedAfterUpload =>
        LET key == TheCall("upload_file:ok").key
            last == out.tr[Len(out.tr)]
        IN  /\ Cardinality(DeleteCalls) = 1
            /\ last.key = key
            /\ \A d \in DeleteCalls, u \in UploadCalls : u < d
            /\ last.ev = "delete_file:ok" => key \notin objects /\ out.exc = None /\ ~out.val.success
            /\ last.ev = "delete_file:fail" => out.exc = None /\ ~out.val.success
            /\ last.ev = "delete_file:raise" => out.exc = "StoreError"
            /\ last.ev \in {"delete_file:ok", "delete_file:fail", "delete_file:raise"}

\* The rollback ran: the uploaded object was deleted and the file reported as
\* failed.
C1_Witness ==
    /\ SaveFailedAfterUpload
    /\ Called("delete_file:ok")
    /\ TheCall("upload_file:ok").key \notin objects
    /\ out.exc = None
    /\ ~out.val.success

\* add_file_to_filestore was answered "failed" by the upload.
UploadReportedFailed ==
    /\ out.op = "add_file_to_filestore"
    /\ Called("upload_file:fail")

\* C10: when the upload is reported as failed, add_file_to_filestore has
\* called upload_file exactly once, reports the file as failed, has made no
\* call to delete_file, and the resource record it created is still there
\* with a null remote_file_key.
C10_NoRetryNoRollback ==
    UploadReportedFailed =>
        LET rid == TheCall("resource.create").rid
        IN  /\ Cardinality(UploadCalls) = 1
            /\ DeleteCalls = {}
            /\ out.exc = None
            /\ ~out.val.success
            /\ rid \in ResIds
            /\ res[rid] /= NoDoc
            /\ res[rid].remote_file_key = NoKey

\* An upload was reported as failed and the record is left behind, keyless.
C10_Witness ==
    /\ UploadReportedFailed
    /\ ~out.val.success
    /\ res[TheCall("resource.create").rid].remote_file_key = NoKey

\* C3 as stated: after move_file_in_file_store the key of the resource has
\* been changed and persisted if and only if the file store reported the move
\* as successful, and without that report the operation raised
\* RemoteFileManagerMoveError.
C3_PersistedIffMoved ==
    out.op = "move_file_in_file_store" =>
        LET i == out.a.rid
            new_key == construct_file_key(out.a.dir, res[i].name)
        IN  /\ Called("move_file:ok") <=>
                    /\ Called("resource.save")
                    /\ res[i].remote_file_key = new_key
                    /\ out.exc = None
            /\ ~Called("move_file:ok") => out.exc = "RemoteFileManagerMoveError"

\* C3, amended: a step of move_file_in_file_store changes the record of the
\* resource only if the file store reported the move as successful; when it
\* did and the save of the record went through, the record holds the new key,
\* nothing else of it changed, and the operation returns; in every other case
\* (the store reports failure, the store raises, the save fails) the operation
\* raises RemoteFileManagerMoveError and no record has changed.
C3_PersistedOnlyIfMovedAndSaved ==
    [][out'.op = "move_file_in_file_store" =>
        LET i == out'.a.rid
            new_key == construct_file_key(out'.a.dir, res[i].name)
            moved == CallsIn(out'.tr, "move_file:ok") /= {}
            saved == CallsIn(out'.tr, "resource.save") /= {}
        IN  /\ res' /= res => moved
            /\ saved <=> (moved /\ out'.a.f.rsave = "ok")
            /\ saved => /\ res' = [res EXCEPT ![i].remote_file_key = new_key]
                        /\ out'.exc = None
            /\ ~saved => /\ out'.exc = "RemoteFileManagerMoveError"
                         /\ res' = res
            /\ kbs' = kbs
    ]_vars

\* A file was moved to the directory of another knowledge base and the new
\* key is on the record.
C3_Witness ==
    /\ out.op = "move_file_in_file_store"
    /\ out.exc = None
    /\ Called("move_file:ok")
    /\ Called("resource.save")
    /\ res[out.a.rid].remote_file_key = construct_file_key(out.a.dir, res[out.a.rid].name)
    /\ res[out.a.rid].remote_file_key \in objects
    /\ out.a.dir /= DirOf(res[out.a.rid].knowledgebase_id)

\* The fields an embedded entry shares with the record of its resource.
TrackedFields == {"name", "remote_file_key", "in_vector_store"}

\* The embedded entries of resource i in its knowledge base.
EntriesOf(i) ==
    LET k == res[i].knowledgebase_id
    IN  IF k = None \/ kbs[k] = NoDoc THEN {}
        ELSE {kbs[k].resources[n] : n \in {m \in 1 .. Len(kbs[k].resources) :
                                            kbs[k].resources[m].resource_id = i}}

\* C4: when update_resource has persisted updates on a resource that is
\* linked to a knowledge base holding an embedded entry for it, and no
\* database write failed, every tracked field named in the updates has the
\* same value in the embedded entry and in the record.
C4_EmbeddedEntryInSync ==
    (/\ out.op = "update_resource"
     /\ out.a.f = NoFault
     /\ Called("resource.save")
     /\ EntriesOf(out.a.rid) /= {})
        => \A e \in EntriesOf(out.a.rid), fld \in TrackedFields \cap DOMAIN out.a.u :
               e[fld] = res[out.a.rid][fld]

\* The AppService flows that load entities and check the actor against them.
GuardedFlows ==
    {"app.add_resources", "app.rename_knowledgebase", "app.rename_resource",
     "app.move_resource_to_another_kb", "app.delete_resources", "app.delete_knowledgebase"}

\* The ids of the knowledge bases and of the resources that the flow op,
\* called with arguments a, loads and checks.
GuardedKbs(op, a) ==
    CASE op \in {"app.add_resources", "app.rename_knowledgebase", "app.delete_knowledgebase"} -> {a.kb}
      [] op = "app.move_resource_to_another_kb" -> {a.kb, a.kb2}
      [] OTHER -> {}
GuardedResources(op, a) ==
    CASE op \in {"app.rename_resource", "app.move_resource_to_another_kb"} -> {a.rid}
      [] op = "app.delete_resources" -> {a.files[n] : n \in 1 .. Len(a.files)}
      [] OTHER -> {}

\* The entities of the call (op, a) all exist in the current state.
GuardedExist(op, a) ==
    /\ \A k \in GuardedKbs(op, a) : Exists(k)
    /\ \A i \in GuardedResources(op, a) : Live(i)
    /\ GuardedKbs(op, a) /= {} \/ GuardedResources(op, a) /= {}

\* The document e is private and owned by somebody other than the actor.
ForeignPrivate(e, user) == e.visibility = PRIVATE /\ e.user_id /= user

\* C2: in every AppService mutation flow whose entities exist, if one of them
\* is private and owned by somebody other than the actor (the anonymous actor
\* included), the flow ends with permission denied (403) and neither the
\* knowledge bases, nor the resources, nor the file store have changed; if
\* all of them are public, the flow is not denied, whoever the actor is.
C2_PrivateDeniedPublicPasses ==
    [][(out'.op \in GuardedFlows /\ GuardedExist(out'.op, out'.a)) =>
        LET ks == GuardedKbs(out'.op, out'.a)
            rs == GuardedResources(out'.op, out'.a)
            user == out'.a.user
        IN  /\ (\/ \E k \in ks : ForeignPrivate(kbs[k], user)
                \/ \E i \in rs : ForeignPrivate(res[i], user))
                    => /\ out'.exc = "HTTP403"
                       /\ UNCHANGED <<kbs, res, objects>>
            /\ (/\ \A k \in ks : kbs[k].visibility = PUBLIC
                /\ \A i \in rs : res[i].visibility = PUBLIC)
                    => out'.exc /= "HTTP403"
    ]_vars

\* The positions of the batch of the last operation whose upload is planned
\* to end as o.
Planned(o) == {i \in 1 .. Len(out.a.files) : out.a.fs[i].upload = o}

\* The elements of seq at the positions in S, in the order of seq.
Pick(seq, S) ==
    LET P[n \in 0 .. Len(seq)] ==
            IF n = 0 THEN <<>>
            ELSE IF n \in S THEN Append(P[n - 1], seq[n]) ELSE P[n - 1]
    IN  P[Len(seq)]

\* The ids of the resources the last operation created.
Created == {out.tr[n].rid : n \in Calls("resource.create")}

\* The ids in the success entries of a summary.
SuccessIds(summary) ==
    {summary.successes[n].resource.resource_id : n \in 1 .. Len(summary.successes)}

\* The ids of the entries embedded in knowledge base k.
EmbeddedIds(k) == {kbs[k].resources[n].resource_id : n \in 1 .. Len(kbs[k].resources)}

\* add_files_to_filestore was called by a known user with at least one file.
BatchCalled ==
    /\ out.op = "add_files_to_filestore"
    /\ out.a.files /= <<>>
    /\ out.a.user /= None

\* C5: a batch in which no upload and no database write fails returns a
\* summary with a success entry for every file, and for every success entry
\* the persisted resource has a non-null remote_file_key and the entry
\* embedded for it in the knowledge base carries the same key.
C5_SuccessMetadataCarriesKey ==
    (/\ BatchCalled
     /\ Planned("ok") = 1 .. Len(out.a.files)
     /\ out.a.f = NoFault)
        => /\ out.exc = None
           /\ Len(out.val.successes) = Len(out.a.files)
           /\ \A i \in SuccessIds(out.val) :
                /\ res[i] /= NoDoc
                /\ res[i].remote_file_key /= NoKey
                /\ i \in EmbeddedIds(out.a.kb)
                /\ \A e \in EntriesOf(i) : e.remote_file_key = res[i].remote_file_key

\* C6: a batch in which the upload of some file raises still returns its
\* summary; the summary has one error entry for every file whose upload
\* raised or was reported as failed and one success entry for every other
\* file, and of the resources the batch created exactly those of the success
\* entries are embedded in the knowledge base.
C6_ThrowIsOneErrorEntry ==
    (/\ BatchCalled
     /\ Planned("raise") /= {}
     /\ out.a.f = NoFault)
        => /\ out.exc = None
           /\ Len(out.val.errors) = Cardinality(Planned("raise") \cup Planned("fail"))
           /\ [n \in 1 .. Len(out.val.errors) |-> out.val.errors[n].filename]
                  = Pick(out.a.files, Planned("raise") \cup Planned("fail"))
           /\ Len(out.val.successes) = Cardinality(Planned("ok"))
           /\ Created \cap EmbeddedIds(out.a.kb) = SuccessIds(out.val)

\* C7: a batch of N files in which no upload raises and the attach goes
\* through returns a summary with len(successes) + len(errors) = N, each list
\* in the order of the input, and every success entry names a resource that
\* was created, whose object is in the file store and whose record holds the
\* key of that object.
C7_SummaryAccountsForEveryFile ==
    (/\ out.op = "add_files_to_filestore"
     /\ out.a.user /= None
     /\ Planned("raise") = {}
     /\ out.a.f = NoFault)
        => /\ out.exc = None
           /\ Len(out.val.successes) + Len(out.val.errors) = Len(out.a.files)
           /\ [n \in 1 .. Len(out.val.successes) |-> out.val.successes[n].filename]
                  = Pick(out.a.files, Planned("ok"))
           /\ [n \in 1 .. Len(out.val.errors) |-> out.val.errors[n].filename]
                  = Pick(out.a.files, Planned("fail"))
           /\ \A i \in SuccessIds(out.val) :
                /\ i \in Created
                /\ res[i] /= NoDoc
                /\ res[i].remote_file_key /= NoKey
                /\ res[i].remote_file_key \in objects

\* C8: a batch whose files were all created and uploaded and whose final
\* attach fails raises RemoteFileManagerAddError; the resources it created
\* and the objects it uploaded are still there.
C8_AttachFailureRaisesAddError ==
    (/\ BatchCalled
     /\ Planned("ok") = 1 .. Len(out.a.files)
     /\ out.a.f = [NoFault EXCEPT !.kbsave = "fail"])
        => /\ out.exc = "RemoteFileManagerAddError"
           /\ Cardinality(Created) = Len(out.a.files)
           /\ \A i \in Created : res[i] /= NoDoc /\ res[i].remote_file_key \in objects

\* C9: an AppService create or add-resources flow that got as far as the
\* batch, with files that were all created and uploaded, and whose final
\* attach fails, ends in HTTP 500.
C9_AttachFailureIsHttp500 ==
    (/\ out.op \in {"app.create_knowledgebase", "app.add_resources"}
     /\ out.a.files /= <<>>
     /\ out.a.user /= None
     /\ Planned("ok") = 1 .. Len(out.a.files)
     /\ out.a.f.kbsave = "fail"
     /\ out.exc \notin {"HTTP400", "HTTP403", "HTTP404"})
        => out.exc = "HTTP500"

\* C11: add_files_to_filestore has closed the handle of every file of the
\* batch when it ends, whether the file succeeded, was reported as failed or
\* raised while it was handled.
C11_EveryHandleClosed ==
    out.op = "add_files_to_filestore" =>
        \A i \in 1 .. Len(out.a.files) :
            \E n \in Calls("file.close") : out.tr[n].rid = i

\* The resource ids a delete-resources call was given.
IdsOf(a) == {a.files[n] : n \in 1 .. Len(a.files)}

\* Resource i cannot be deleted by user: it is not there, or it is private
\* and owned by somebody else.
Refused(i, user) == IF Live(i) THEN ForeignPrivate(res[i], user) ELSE TRUE

\* The positions of the record deletions in the trace tr.
RecordDeletes(tr) == CallsIn(tr, "resource.delete")
\* The positions of the storage deletions in the trace tr.
ObjectDeletes(tr) ==
    CallsIn(tr, "delete_file:ok") \cup CallsIn(tr, "delete_file:fail")
        \cup CallsIn(tr, "delete_file:raise")

\* C12: the delete-resources flow, given resources that all exist, pass the
\* permission check and have their object in the file store, and with no
\* collaborator failing, ends without error with the object of every one of
\* them gone from the store and every record deleted, all storage deletions
\* made before the first record deletion.
C12_EveryObjectDeletedFirst ==
    [][(/\ out'.op = "app.delete_resources"
        /\ out'.a.files /= <<>>
        /\ out'.a.f = NoFault
        /\ \A i \in IdsOf(out'.a) :
              /\ ~Refused(i, out'.a.user)
              /\ res[i].remote_file_key \in objects)
        => /\ out'.exc = None
           /\ \A i \in IdsOf(out'.a) :
                /\ res'[i] = NoDoc
                /\ res[i].remote_file_key \notin objects'
           /\ \A d \in ObjectDeletes(out'.tr), r \in RecordDeletes(out'.tr) : d < r
    ]_vars

\* C13: a delete-resources call in which some requested resource is not
\* found or fails the permission check ends with an error, and no resource
\* record and no storage object has been deleted.
C13_NothingDeletedUnlessAllPass ==
    [][(/\ out'.op = "app.delete_resources"
        /\ \E i \in IdsOf(out'.a) : Refused(i, out'.a.user))
        => /\ out'.exc /= None
           /\ res' = res
           /\ objects' = objects
           /\ kbs' = kbs
           /\ ObjectDeletes(out'.tr) = {}
           /\ RecordDeletes(out'.tr) = {}
    ]_vars

\* A delete-resources call for two resources, the first of which the actor
\* may delete and the second not, ended with an error and both the record
\* and the object of the first are still there.
C13_Witness ==
    /\ out.op = "app.delete_resources"
    /\ Len(out.a.files) = 2
    /\ ~Refused(out.a.files[1], out.a.user)
    /\ Refused(out.a.files[2], out.a.user)
    /\ res[out.a.files[1]].remote_file_key \in objects
    /\ out.exc /= None

\* The resources whose record names knowledge base k as theirs.
OwnedBy(k) == {i \in ResIds : Live(i) /\ res[i].knowledgebase_id = k}

\* C14: after the delete-knowledgebase flow has ended without error, the
\* directory of the knowledge base holds no object, no record of a resource
\* it owned is left, its own record is gone, and a get-by-id of it fails
\* with KnowledgeBaseNotFound.
C14_CascadeRemovesEverything ==
    (out.op = "app.delete_knowledgebase" /\ out.exc = None) =>
        /\ Called("delete_directory:ok")
        /\ Under(objects, DirOf(out.a.kb)) = {}
        /\ OwnedBy(out.a.kb) = {}
        /\ kbs[out.a.kb] = NoDoc
        /\ svc_get_knowledgebase_by_id(Here, out.a.kb).exc = "KnowledgeBaseNotFound"

\* C15: in the delete-knowledgebase flow the record of the knowledge base is
\* deleted only after the file store has deleted the directory; when the
\* deletion of the directory is reported as failed, the flow ends in an
\* error (HTTP 500) and neither the knowledge bases nor the resource records
\* have changed.
C15_DirectoryFirst ==
    [][out'.op = "app.delete_knowledgebase" =>
        /\ \A c \in CallsIn(out'.tr, "kb.delete") :
              \E d \in CallsIn(out'.tr, "delete_directory:ok") : d < c
        /\ kbs' /= kbs => CallsIn(out'.tr, "delete_directory:ok") /= {}
        /\ CallsIn(out'.tr, "delete_directory:fail") /= {}
              => /\ out'.exc = "HTTP500"
                 /\ kbs' = kbs
                 /\ res' = res
                 /\ CallsIn(out'.tr, "kb.delete") = {}
    ]_vars

\* The deletion of the directory of a knowledge base that owns a resource
\* was reported as failed: the flow ended in HTTP 500 and the knowledge base
\* and the resource are still there.
C15_Witness ==
    /\ out.op = "app.delete_knowledgebase"
    /\ Called("delete_directory:fail")
    /\ out.exc = "HTTP500"
    /\ Exists(out.a.kb)
    /\ OwnedBy(out.a.kb) /= {}

\* A knowledge base was deleted after its directory.
C15_WitnessDeleted ==
    /\ out.op = "app.delete_knowledgebase"
    /\ Called("delete_directory:ok")
    /\ Called("kb.delete")
    /\ out.exc = None

\* The ids of the entries embedded in knowledge base k of the collection ks.
EmbeddedIn(ks, k) == {ks[k].resources[n].resource_id : n \in 1 .. Len(ks[k].resources)}

\* A call (op, a) that moves a resource the actor may move: both knowledge
\* bases and the resource exist and let the actor in, the resource belongs to
\* the source, is embedded there, and its object is in the file store.
Movable(op, a) ==
    /\ op = "app.move_resource_to_another_kb"
    /\ a.kb /= a.kb2
    /\ Exists(a.kb) /\ Exists(a.kb2) /\ Live(a.rid)
    /\ ~ForeignPrivate(kbs[a.kb], a.user)
    /\ ~ForeignPrivate(kbs[a.kb2], a.user)
    /\ ~ForeignPrivate(res[a.rid], a.user)
    /\ res[a.rid].knowledgebase_id = a.kb
    /\ a.rid \in EmbeddedIn(kbs, a.kb)
    /\ res[a.rid].remote_file_key \in objects

\* C16: move_resource_to_another_kb, called for a resource the actor may
\* move and with no collaborator failing, completes without error; the entry
\* of the resource is then absent from the embedded list of the source,
\* present in that of the target, and the key of the resource is the new key
\* under the directory of the target.
C16_MovedEntryAndKey ==
    [][(Movable(out'.op, out'.a) /\ out'.a.f = NoFault)
        => /\ out'.exc = None
           /\ out'.a.rid \notin EmbeddedIn(kbs', out'.a.kb)
           /\ out'.a.rid \in EmbeddedIn(kbs', out'.a.kb2)
           /\ res'[out'.a.rid].remote_file_key
                  = construct_file_key(kbs[out'.a.kb2].remote_dir, res[out'.a.rid].name)
    ]_vars

\* C17: move_resource_to_another_kb, called for a resource the actor may
\* move, with a storage move that goes through and a detach that fails, ends
\* in an error with the key of the resource at the new location and its
\* entry still embedded in the source.  (The detach is a call of an
\* undefined method and fails in every call.)
C17_MovedKeyOldEntry ==
    [][(/\ Movable(out'.op, out'.a)
        /\ out'.a.f.move_file = "ok"
        /\ out'.a.f.rsave = "ok")
        => /\ out'.exc /= None
           /\ res'[out'.a.rid].remote_file_key
                  = construct_file_key(kbs[out'.a.kb2].remote_dir, res[out'.a.rid].name)
           /\ res'[out'.a.rid].remote_file_key \in objects'
           /\ out'.a.rid \in EmbeddedIn(kbs', out'.a.kb)
    ]_vars


\* C18: remove_resources(kb_id, ids) on a knowledge base none of whose
\* embedded entries has a resource id in ids fails with ResourceDeleteError,
\* and the knowledge base is not saved.
C18_UnchangedListIsDeleteError ==
    [][(/\ out'.op = "remove_resources_from_kb"
        /\ Exists(out'.a.kb)
        /\ \A i \in IdsOf(out'.a) : i \notin EmbeddedIn(kbs, out'.a.kb))
       => /\ out'.exc = "ResourceDeleteError"
          /\ kbs' = kbs
          /\ CallsIn(out'.tr, "kb.save") = {}]_vars


\* C19: after add_resources(kb.id, r) succeeds, get_all_resources(kb.id)
\* returns the entries the list had before, in their order, followed by one
\* entry per added resource, whose resource id is the resource's and whose
\* fields are r.to_metadata() of the document the caller passed.
C19_AddedEntriesFollowOldOnes ==
    [][(out'.op = "add_resources" /\ out'.exc = None /\ out'.a.files /= <<>>)
       => LET k == out'.a.kb
              ids == out'.a.files
              old == kbs[k].resources
              got == kb_get_all_resources(Here', k)
          IN  /\ got.exc = None
              /\ Len(got.val) = Len(old) + Len(ids)
              /\ SubSeq(got.val, 1, Len(old)) = old
              /\ \A n \in 1 .. Len(ids) :
                    /\ got.val[Len(old) + n].resource_id = ids[n]
                    /\ got.val[Len(old) + n] = to_metadata(res[ids[n]])]_vars

\* A resource was added to a knowledge base whose list already held an entry
\* of another resource.
C19_Witness ==
    /\ out.op = "add_resources"
    /\ out.exc = None
    /\ Len(out.a.files) = 1
    /\ kb_get_all_resources(Here, out.a.kb).exc = None
    /\ Len(kbs[out.a.kb].resources) = 2
    /\ kbs[out.a.kb].resources[1].resource_id /= out.a.files[1]
    /\ kbs[out.a.kb].resources[2] = to_metadata(res[out.a.files[1]])


\* The entries add_resources makes of the documents rs.
MetasOf(rs) == [n \in 1 .. Len(rs) |-> to_metadata(rs[n])]

\* C20: the save of an add_resources call writes the list the call read
\* followed by its own entries, whatever the knowledge base holds by then: an
\* entry another call saved after this call's read is overwritten, so two
\* interleaved calls can both report success with the entries of one missing.
C20_SaveOverwritesWithWhatWasRead ==
    [][\A p \in Tasks :
        (inflight[p].pc = "read" /\ inflight'[p].pc = "done" /\ inflight'[p].exc = None)
        => kbs'[inflight[p].kb.id].resources
              = inflight[p].kb.resources \o MetasOf(inflight[p].rs)]_vars

\* Both calls reported their resources as added to the same knowledge base,
\* and the list lacks the entry of one of them.
C20_Witness ==
    /\ \A p \in Tasks : inflight[p].pc = "done" /\ inflight[p].exc = None /\ inflight[p].rs /= <<>>
    /\ inflight[1].kb.id = inflight[2].kb.id
    /\ \E p \in Tasks : \E n \in 1 .. Len(inflight[p].rs) :
        inflight[p].rs[n].resource_id \notin EmbeddedIn(kbs, inflight[p].kb.id)


\* C21: a creation request with visibility private and no authenticated
\* user is answered 400 (invalid input), and nothing is created: no
\* knowledge base, no resource record, no storage object, and no call
\* reaches the database or the store.
C21_PrivateNeedsOwner ==
    [][(out'.op = "route.create_knowledgebase" /\ out'.a.user = None /\ out'.a.vis = PRIVATE)
       => /\ out'.exc = "HTTP400"
          /\ out'.tr = <<>>
          /\ kbs' = kbs /\ res' = res /\ made' = made /\ objects' = objects]_vars

\* An anonymous private creation request with a valid name and a file was
\* refused.
C21_Witness ==
    /\ out.op = "route.create_knowledgebase"
    /\ out.a.user = None
    /\ out.a.vis = PRIVATE
    /\ out.a.name = "kb"
    /\ out.a.files /= <<>>
    /\ out.exc = "HTTP400"
    /\ ~Exists(out.a.kb)


\* The creation calls, through the route or on the application service.
CreateOps == {"route.create_knowledgebase", "app.create_knowledgebase"}

\* C22: a creation request whose name holds two consecutive spaces is
\* answered 400 (invalid input) before anything happens: no knowledge base
\* is persisted, no resource record is created, no upload starts.
C22_BadNameBeforePersistence ==
    [][(out'.op \in CreateOps /\ HasDoubleSpace(Strip(out'.a.name)))
       => /\ out'.exc = "HTTP400"
          /\ out'.tr = <<>>
          /\ kbs' = kbs /\ res' = res /\ made' = made /\ objects' = objects]_vars

\* A creation request of an authenticated user, with files and a database
\* that would have accepted the knowledge base, was refused for its name.
C22_Witness ==
    /\ out.op \in CreateOps
    /\ out.a.name = "my  kb"
    /\ out.a.user /= None
    /\ out.a.files /= <<>>
    /\ out.a.f.kbcreate = "ok"
    /\ out.exc = "HTTP400"
    /\ ~Exists(out.a.kb)


\* The name without the spaces before its first and after its last
\* character that is not a space.
Trimmed(n) ==
    LET inner == {i \in 1 .. Len(n) : n[i] /= " "}
    IN  IF inner = {} THEN <<>>
        ELSE SubSeq(n, CHOOSE i \in inner : \A j \in inner : i <= j,
                       CHOOSE i \in inner : \A j \in inner : j <= i)

\* The slug grammar: groups of lower-case letters and digits, joined by
\* single hyphens.
RECURSIVE SlugGrammar(_)
SlugGrammar(s) ==
    /\ s /= <<>>
    /\ Head(s) = "a"
    /\ \/ Len(s) = 1
       \/ SlugGrammar(Tail(s))
       \/ Len(s) >= 3 /\ s[2] = "-" /\ SlugGrammar(SubSeq(s, 3, Len(s)))

\* The rule for names: trimmed, no two consecutive spaces, and a slug once
\* every space left is a hyphen.
NameRule(n) ==
    LET t == Trimmed(n)
    IN  /\ \A i \in 1 .. Len(t) - 1 : t[i] /= " " \/ t[i + 1] /= " "
        /\ SlugGrammar([i \in 1 .. Len(t) |-> IF t[i] = " " THEN "-" ELSE t[i]])

\* C23: validate_name(n) succeeds if and only if n trimmed contains no two
\* consecutive spaces and, every remaining space replaced by a hyphen,
\* matches the slug grammar; otherwise it raises 400.
C23_ValidIffRule ==
    out.op = "validate_name" =>
        /\ out.exc \in {None, "HTTP400"}
        /\ out.exc = None <=> NameRule(out.a.text)

\* A name with outer spaces and an inner space was accepted.
C23_Witness ==
    /\ out.op = "validate_name"
    /\ out.exc = None
    /\ Len(out.a.text) = MaxLen
    /\ out.a.text[1] = " "
    /\ \E i \in 2 .. Len(out.a.text) - 1 : out.a.text[i] = " " /\ out.a.text[i - 1] = "a"


\* C24: after a successful creation flow the knowledge base's remote
\* directory key is not null, and every object the batch upload of the flow
\* stored lies under that directory.
C24_DirectoryKeyAssigned ==
    (out.op \in CreateOps /\ out.exc = None) =>
        /\ Exists(out.a.kb)
        /\ kbs[out.a.kb].remote_dir /= None
        /\ \A n \in Calls("upload_file:ok") : out.tr[n].key[1] = kbs[out.a.kb].remote_dir


\* C25: the creation flow with visibility public and no user id, when no
\* collaborator fails, persists a knowledge base whose owning user id is
\* null, and the resources of the files uploaded into it have no owner.
C25_AnonymousPublicCreation ==
    (/\ out.op \in CreateOps
     /\ out.a.user = None
     /\ out.a.vis = PUBLIC
     /\ out.a.name = "kb"
     /\ out.a.f = NoFault
     /\ \A i \in 1 .. Len(out.a.fs) : out.a.fs[i] = NoFault)
    => /\ out.exc = None
       /\ Exists(out.a.kb)
       /\ kbs[out.a.kb].user_id = None
       /\ Cardinality(Calls("resource.create")) = Len(out.a.files)
       /\ \A n \in Calls("resource.create") :
            Live(out.tr[n].rid) /\ res[out.tr[n].rid].user_id = None


\* C26: the remote directory key of a knowledge base never changes after
\* creation: whatever flow of the application service runs (rename,
\* add-resources, move of a resource, delete of resources), a knowledge base
\* that is still there has the directory key it had before.
C26_DirectoryKeyImmutable ==
    [][\A k \in KbIds :
        (kbs[k] /= NoDoc /\ kbs'[k] /= NoDoc) => kbs'[k].remote_dir = kbs[k].remote_dir]_vars

\* A knowledge base was renamed and kept its directory key.
C26_Witness ==
    /\ out.op = "app.rename_knowledgebase"
    /\ out.exc = None
    /\ Called("kb.save")
    /\ kbs[out.a.kb].name = Strip(out.a.name)
    /\ kbs[out.a.kb].remote_dir = DirOf(out.a.kb)


\* C27: S3Service.delete_directory on a prefix under which no object exists
\* answers failure ("Directory not found." when the listing itself worked)
\* and changes nothing, and a delete that answered success leaves no object
\* under the prefix: the next delete of the same directory fails.
C27_EmptyPrefixIsFailure ==
    [][out'.op = "s3.delete_directory" =>
         /\ out'.exc = None
         /\ Under(objects, out'.a.dir) = {} =>
                /\ ~out'.val.success
                /\ out'.a.s3.list = "ok" => out'.val.message = "Directory not found."
                /\ objects' = objects
         /\ out'.val.success => Under(objects', out'.a.dir) = {}]_vars

\* A directory that held the object of a resource is deleted again after
\* its objects are gone.
C27_Witness ==
    /\ out.op = "s3.delete_directory"
    /\ out.a.s3 = NoS3
    /\ ~out.val.success
    /\ out.val.message = "Directory not found."
    /\ \E i \in ResIds : Live(i) /\ res[i].remote_file_key /= NoKey
                          /\ res[i].remote_file_key[1] = out.a.dir


\* C28: update_resource on a stored resource that has no owning knowledge
\* base, with an update whose name (if any) is not blank and with a database
\* that does not fail, succeeds, persists the change on the resource and
\* modifies no knowledge base.
C28_UnlinkedUpdateSucceeds ==
    [][(/\ out'.op = "update_resource"
        /\ Live(out'.a.rid)
        /\ res[out'.a.rid].knowledgebase_id = None
        /\ out'.a.u \in {[in_vector_store |-> TRUE], [name |-> " f2 "]}
        /\ out'.a.f = NoFault)
       => /\ out'.exc = None
          /\ res'[out'.a.rid] = IF "name" \in DOMAIN out'.a.u
                                 THEN [res[out'.a.rid] EXCEPT !.name = "f2"]
                                 ELSE [res[out'.a.rid] EXCEPT !.in_vector_store = TRUE]
          /\ kbs' = kbs]_vars


\* The requests that upload: through the create route and the add route.
UploadOps == {"route.create_knowledgebase", "route.add_resources"}

\* C29: after a create or add-resources request with files, made by the
\* owner, with a valid name, while no collaborator fails, the route has
\* answered and the payload of the event it enqueued has one storage key per
\* file of the request, none of them null, each the key of a stored object.
C29_EventCarriesUploadedKeys ==
    (/\ out.op \in UploadOps
     /\ out.a.files /= <<>>
     /\ out.a.user /= None
     /\ out.op = "route.create_knowledgebase" => out.a.name = "kb"
     /\ out.op = "route.add_resources" => Exists(out.a.kb) /\ kbs[out.a.kb].user_id = out.a.user
     /\ out.a.f = NoFault
     /\ \A n \in 1 .. Len(out.a.fs) : out.a.fs[n] = NoFault)
    => /\ out.exc = None
       /\ Len(out.val.remote_file_keys) = Len(out.a.files)
       /\ \A n \in 1 .. Len(out.val.remote_file_keys) :
            /\ out.val.remote_file_keys[n] /= NoKey
            /\ out.val.remote_file_keys[n] \in objects


\* The updates through the adapters.
AdapterUpdates == {"adapter.update_kb", "adapter.update_resource"}

\* C30: an adapter update of a stored knowledge base or resource whose
\* 'name' is blank after trimming raises InvalidNameError and leaves every
\* persisted record as it was, the other fields of the same update
\* included; with a non-blank name and a save that works it stores the
\* trimmed name.
C30_BlankNameChangesNothing ==
    [][(out'.op \in AdapterUpdates /\ "name" \in DOMAIN out'.a.u)
       => IF Strip(out'.a.u.name) = ""
          THEN /\ out'.exc = "InvalidNameError"
               /\ kbs' = kbs
               /\ res' = res
          ELSE \/ /\ out'.a.f /= NoFault
                  /\ out'.exc \in {"CannotUpdateKnowledgeBase", "CannotUpdateResource"}
                  /\ kbs' = kbs
                  /\ res' = res
               \/ /\ out'.a.f = NoFault
                  /\ out'.exc = None
                  /\ out'.op = "adapter.update_kb" => kbs'[out'.a.kb].name = "f2"
                  /\ out'.op = "adapter.update_resource" => res'[out'.a.rid].name = "f2"]_vars

\* A blank name arrived together with another field whose value was not the
\* stored one: of a knowledge base, and of a resource.
C30_Witness ==
    \/ /\ out.op = "adapter.update_kb"
       /\ out.exc = "InvalidNameError"
       /\ "visibility" \in DOMAIN out.a.u
       /\ out.a.u.visibility /= kbs[out.a.kb].visibility
    \/ /\ out.op = "adapter.update_resource"
       /\ out.exc = "InvalidNameError"
       /\ "in_vector_store" \in DOMAIN out.a.u
       /\ out.a.u.in_vector_store /= res[out.a.rid].in_vector_store


\* The calls of the last operation that belong to the batch upload.
BatchCalls == Calls("resource.create") \cup Calls("resource.save") \cup UploadCalls

\* C31: in the creation flow the knowledge base is persisted before the
\* batch upload starts: a flow that got as far as the batch (it returned the
\* summary, or ended in what the batch raised) began with the create of the
\* knowledge base, which is stored.  When persisting the knowledge base
\* fails, the flow is answered HTTP 400, no resource record is created and
\* no upload is attempted.
C31_PersistedBeforeBatch ==
    [][out'.op \in CreateOps =>
         /\ (out'.exc \notin {"HTTP400"} \/ BatchCalls' /= {}) =>
                /\ Calls("kb.create")' /= {}
                /\ out'.tr[1].ev = "kb.create"
                /\ kbs'[out'.a.kb] /= NoDoc
         /\ (kbs'[out'.a.kb] = NoDoc) =>
                /\ out'.exc = "HTTP400"
                /\ BatchCalls' = {}
                /\ res' = res
                /\ made' = made
                /\ objects' = objects]_vars

\* The insert of the knowledge base failed for a request with files.
C31_Witness ==
    /\ out.op \in CreateOps
    /\ out.a.name = "kb"
    /\ out.a.user /= None
    /\ out.a.files /= <<>>
    /\ out.a.f.kbcreate = "fail"
    /\ out.exc = "HTTP400"
    /\ ~Exists(out.a.kb)
    /\ BatchCalls = {}


\* C32: in add_file_to_filestore the resource record is created, with a
\* null file key, before the upload is tried, and the upload is tagged with
\* the id of that record; while the upload has not succeeded the record
\* keeps the null key.  When the create fails no upload is tried and the
\* file is reported as failed.
C32_RecordBeforeUpload ==
    [][out'.op = "add_file_to_filestore" =>
         /\ UploadCalls' /= {} =>
                \E c \in Calls("resource.create")' : \A u \in UploadCalls' :
                    /\ c < u
                    /\ out'.tr[c].rid = out'.tr[u].rid
                    /\ res[out'.tr[c].rid] = NoDoc
                    /\ res'[out'.tr[c].rid] /= NoDoc
                    /\ Calls("upload_file:ok")' = {} => res'[out'.tr[c].rid].remote_file_key = NoKey
         /\ Calls("resource.create")' = {} =>
                /\ UploadCalls' = {}
                /\ out'.exc = None
                /\ ~out'.val.success
                /\ res' = res
                /\ objects' = objects]_vars

\* An object was uploaded for a record created in the same call.
C32_Witness ==
    /\ out.op = "add_file_to_filestore"
    /\ Calls("resource.create") /= {}
    /\ Calls("upload_file:ok") /= {}
    /\ TheCall("upload_file:ok").rid = TheCall("resource.create").rid
    /\ TheCall("upload_file:ok").key \in objects \/ DeleteCalls /= {}


DeleteOps == {"app.delete_resources", "delete_resources"}

\* The ids some embedded entry of a stored knowledge base refers to.
ListedIds ==
    UNION {{kbs[k].resources[n].resource_id : n \in 1 .. Len(kbs[k].resources)} :
             k \in {j \in KbIds : Exists(j)}}

\* C34: a deletion of stored resources the caller may delete, with no
\* collaborator failing, succeeds, the records are gone, and afterwards no
\* embedded entry of a knowledge base refers to a resource without a record.
C34_NoEntryOfDeletedResource ==
    [][(/\ out'.op \in DeleteOps
        /\ out'.a.files /= <<>>
        /\ out'.a.f = NoFault
        /\ \A i \in IdsOf(out'.a) :
              /\ Live(i)
              /\ out'.op = "app.delete_resources" => ~Refused(i, out'.a.user))
       => /\ out'.exc = None
          /\ \A i \in IdsOf(out'.a) : res'[i] = NoDoc
          /\ \A i \in ListedIds' : res'[i] /= NoDoc]_vars


\* C35: a move of a resource the actor may move, with no collaborator
\* failing, completes without error, and then the resource's
\* knowledgebase_id is the target, and every resource whose entry is
\* embedded in a knowledge base names that knowledge base as its own.
C35_EmbeddedMeansOwned ==
    [][(Movable(out'.op, out'.a) /\ out'.a.kb /= out'.a.kb2 /\ out'.a.f = NoFault)
        => /\ out'.exc = None
           /\ res'[out'.a.rid].knowledgebase_id = out'.a.kb2
           /\ \A k \in KbIds : kbs'[k] /= NoDoc =>
                \A i \in EmbeddedIn(kbs', k) :
                    res'[i] /= NoDoc /\ res'[i].knowledgebase_id = k]_vars


\* C36: the name of every stored knowledge base passes the validation of
\* names: no two spaces in a row, and a slug once its spaces are hyphens.
C36_PersistedNamesValid ==
    \A k \in KbIds :
        Exists(k) => /\ ~HasDoubleSpace(Strip(kbs[k].name))
                     /\ IsSlug(Hyphenate(Strip(kbs[k].name)))


\* C37: S3Service.move_file of a stored object, while the client's calls
\* work, reports success; and whenever it reports success an object is at
\* the key it returns and, that key being another one, none is left at the
\* old key.
C37_MovedMeansMoved ==
    [][out'.op = "s3.move_file" =>
         /\ (out'.a.key \in objects /\ out'.a.s3 = NoS3) =>
                out'.exc = None /\ out'.val.success
         /\ (out'.exc = None /\ out'.val.success) =>
                /\ out'.val.file_key \in objects'
                /\ out'.val.file_key /= out'.a.key => out'.a.key \notin objects']_vars


\* C38: the delete-knowledgebase flow, called by the owner of a stored
\* knowledge base under whose directory no object is stored, with no
\* collaborator failing, completes without error and removes the record of
\* the knowledge base.
C38_EmptyDirectoryDeletable ==
    [][(/\ out'.op = "app.delete_knowledgebase"
        /\ Exists(out'.a.kb)
        /\ out'.a.user /= None
        /\ kbs[out'.a.kb].user_id = out'.a.user
        /\ Under(objects, kbs[out'.a.kb].remote_dir) = {}
        /\ out'.a.f = NoFault)
       => /\ out'.exc = None
          /\ kbs'[out'.a.kb] = NoDoc]_vars


\* C39: the record add_file_to_filestore creates for a file added to a
\* knowledge base has the visibility of that knowledge base.
C39_ResourceVisibilityOfKb ==
    (/\ out.op = "add_file_to_filestore"
     /\ Calls("resource.create") /= {}
     /\ Live(TheCall("resource.create").rid))
    => res[TheCall("resource.create").rid].visibility = kbs[out.a.kb].visibility


\* C40: the delete-resources flow called with an empty list of ids
\* completes without error, and deletes no storage object and no record.
C40_EmptyListIsNoOp ==
    [][(out'.op = "app.delete_resources" /\ out'.a.files = <<>>)
       => /\ out'.exc = None
          /\ objects' = objects
          /\ res' = res
          /\ kbs' = kbs]_vars

====
